---- MODULE Spec2Model ----
(***************************************************************************)
(* RoSSH: the three-party session protocol of rossh_client.py,             *)
(* rossh_server.py and rossh_common.py.                                    *)
(*                                                                         *)
(* Processes: client controllers (rossh_client.py, one per invocation),    *)
(* connection endpoints (rossh_server.py __main__, one per launch command) *)
(* and session daemons (the child forked in create_session_daemon).        *)
(* Shared state: the remote directories /tmp/rossh.<id> with their         *)
(* connection.pid, session.pid and the two FIFOs, and the orphan markers   *)
(* .orphan.<id> with their flock locks in the client program directory.    *)
(*                                                                         *)
(* Every system call of the source that another process can observe is a   *)
(* step of its own; signals are pending flags delivered by separate steps. *)
(* Abstractions: SSH_AUTH_SOCK is unset, shutil.rmtree and "open +         *)
(* read/write of a pid file" are atomic, pids are never reused, SIGWINCH   *)
(* arrives only on entry to the relay, and in the session protocol the     *)
(* byte streams are sequences of whole tokens (a control frame or a chunk  *)
(* of plain bytes). The installed server has the client's                  *)
(* rossh_version_index unless host_change replaces it.                     *)
(*                                                                         *)
(* Spec runs the clients one after another on a network that can fail;     *)
(* SpecPair runs them side by side with shells that stay alive and silent; *)
(* SpecVer adds changes made to the remote account from elsewhere.         *)
(*                                                                         *)
(* The byte-level functions of rossh_common.py are operators on sequences  *)
(* of bytes, exercised by specifications of their own over bounded inputs: *)
(* SpecFinder (PatternFinder), SpecCodec (build_ctlseq, find_ctlseq_param) *)
(* and SpecFrames (the receivers of WS and KILLed frames). SpecInstall     *)
(* runs the install sequence of init_connection (mkdir, rm, base64 echo    *)
(* lines, chmod) against a remote shell, with scaled base64.               *)
(***************************************************************************)
EXTENDS Integers, Sequences, FiniteSets, TLC

\* ---- bounds -----------------------------------------------------------
MaxClients == 2   \* client processes; client c uses terminal id c
MaxEp      == 2   \* endpoint processes ever launched
MaxGen     == 2   \* session directories ever made (and daemons ever forked)
MaxBuf     == 1   \* capacity of a FIFO, in tokens
MaxLink    == 2   \* capacity of an endpoint's stdout channel, in tokens
MaxDrops   == 1   \* network failures
MaxChanges == 1   \* changes made to the remote account from elsewhere

\* rossh_common.py, line 17
rossh_version_index == 4

Clients == 1..MaxClients
Ids     == 1..MaxClients
Eps     == 1..MaxEp
Gens    == 1..MaxGen
Daemons == 1..MaxGen

\* what a descriptor is open on: 0 (nothing), a FIFO instance g, or a
\* regular file (open(path, 'w') creates one where no entry exists)
RegularFile == 0 - 1

VARIABLES
  dir,     \* dir[t]: 0 if /tmp/rossh.<t> is absent, else its instance g
  nextGen, \* next unused directory instance
  inst,    \* inst[g]: the entries of directory instance g
           \*   input, output in {"none", "fifo", "file"}
           \*   conn: content of connection.pid, sess: of session.pid (0: no file)
  inBuf,   \* inBuf[g]: tokens in the input FIFO of g ("WS" or "d")
  outBuf,  \* outBuf[g]: number of chunks in the output FIFO of g
  ep,      \* ep[e]: an endpoint process
           \*   pc, term (args.term), kill (args.kill still to process),
           \*   in, out (what rssh_input, rssh_output are open on; a FIFO
           \*   counts as open from the moment open() is entered),
           \*   int, hup (pending SIGINT, SIGHUP), up (its secure-shell
           \*   channel still reaches the client), tx (bytes written to stdout
           \*   and not yet read by the client), connS, connE (frames written),
           \*   fwd (it has forwarded shell output), why (how it ended),
           \*   ver (rossh_version_index of the script it runs)
  nextEp,
  drops,   \* network failures so far
  dm,      \* dm[d]: a session daemon
           \*   pc, term, in, out (f_input, f_output), sigterm (pending),
           \*   shell in {"none", "alive", "exited"}, why (how the loop ended)
  nextD,
  cl,      \* cl[c]: a client process
           \*   pc, created (session_created), second (is_second_try),
           \*   todo, ret, probing (arg_orphaned_sessions), link (the endpoint
           \*   its ssh child talks to), seenS, nMarks (markers it created),
           \*   why (how it ended), launches, installs (launch commands sent
           \*   and install sequences run in this connect attempt), key (what
           \*   the retry prompt read)
  marker,  \* marker[i]: .orphan.<i> exists
  lock,    \* lock[i]: who holds the flock on .orphan.<i>
  host     \* the remote account: python (a python3 is on its PATH),
           \*   server (rossh_version_index of ~/.rossh/rossh_server.py,
           \*   0 when the file is absent), changes (made from elsewhere)

\* the byte-level routines of rossh_common.py, each with the input it is
\* run on
VARIABLES
  pf,      \* a PatternFinder and the stream fed to it chunk by chunk:
           \*   pattern, stream (all of it), fed (bytes of it consumed),
           \*   tail_buf, chunk (the matching chunk), res (None as <<>>, or
           \*   <<before, after>>)
  cs,      \* a control sequence built and parsed again: op, payload (the
           \*   arguments), data (what build_ctlseq returned), ret, remain
           \*   (what find_ctlseq_param returned), pc
  rx       \* a receiver of control frames and the stream it reads: op ('WS':
           \*   the daemon reading the input pipe, 'KILLed:': the client in
           \*   the launch loop), writes (what the sender wrote, write by
           \*   write: <<"d", bytes>> or <<"f", payload>>), todo (bytes still
           \*   to be read), acted (payloads of the frames acted on), passed
           \*   (bytes passed on as ordinary data), raised (find_ctlseq_param
           \*   raised RuntimeError)

\* the install sequence of init_connection and the remote shell it drives
VARIABLE
  ins      \* src (the program files in the client's directory), remote (the
           \*   same names in ~/.rossh: <<>> if absent, else <<content>>),
           \*   cwd (of the remote shell), stray (a command touched a file
           \*   outside ~/.rossh), run (install sequences begun), k (commands
           \*   of this run completed), cmd (the command line in flight),
           \*   wait ("none", "sent": written to the master, "answered": run
           \*   by the shell, its PROMPT not read yet), sent, seen (commands
           \*   written and PROMPTs observed)

session == <<dir, nextGen, inst, inBuf, outBuf, ep, nextEp, drops, dm, nextD, cl, marker, lock, host>>

vars == <<dir, nextGen, inst, inBuf, outBuf, ep, nextEp, drops, dm, nextD, cl, marker, lock, host,
          pf, cs, rx, ins>>

\* ---- tokens of an endpoint's stdout ------------------------------------
TokS    == <<"S", 0>>       \* build_ctlseq(b'CONN:S')
TokE    == <<"E", 0>>       \* build_ctlseq(b'CONN:E')
TokOut  == <<"o", 0>>       \* a chunk of shell output
TokP    == <<"P", 0>>       \* the PS1 of the remote /bin/sh: build_ctlseq('PROMPT')
TokK(i) == <<"K", i>>       \* build_ctlseq('KILLed:', i)
TokU    == <<"U", 0>>       \* build_ctlseq('CONN:FL:VER:SERVER_UPDATE')
TokT    == <<"T", 0>>       \* build_ctlseq('CONN:FL:VER:CLIENT_TOOOLD')
TokEnv  == <<"env", 0>>     \* b'/usr/bin/env:' (env names the missing python3)
TokNoF  == <<"nof", 0>>     \* b'No such file or directory'

NoLock == <<0, "none">>

EmptyInst == [input |-> "none", output |-> "none", conn |-> 0, sess |-> 0]

NoEp == [pc |-> "unborn", term |-> 0, kill |-> <<>>, in |-> 0, out |-> 0,
         int |-> FALSE, hup |-> FALSE, up |-> FALSE, tx |-> <<>>,
         connS |-> FALSE, connE |-> 0, fwd |-> FALSE, why |-> "none", ver |-> 0]

NoDaemon == [pc |-> "unborn", term |-> 0, in |-> 0, out |-> 0,
             sigterm |-> FALSE, shell |-> "none", why |-> "none"]

NoClient == [pc |-> "idle", created |-> FALSE, second |-> FALSE, todo |-> {},
             ret |-> <<>>, probing |-> 0, link |-> 0, seenS |-> FALSE,
             nMarks |-> 0, why |-> "none", launches |-> 0, installs |-> 0,
             key |-> "none"]

NoFinder == [pattern |-> <<>>, stream |-> <<>>, fed |-> 0, tail_buf |-> <<>>,
             chunk |-> <<>>, res |-> <<>>]

NoCodec == [op |-> <<>>, payload |-> <<>>, data |-> <<>>, ret |-> <<>>,
            remain |-> <<>>, pc |-> "idle"]

NoReceiver == [op |-> <<>>, writes |-> <<>>, todo |-> <<>>, acted |-> <<>>,
               passed |-> <<>>, raised |-> FALSE]

NoInstall == [src |-> <<>>, remote |-> <<>>, cwd |-> "~", stray |-> FALSE,
              run |-> 0, k |-> 0, cmd |-> <<>>, wait |-> "none",
              sent |-> 0, seen |-> 0]

\* nothing runs yet, nothing exists on either side
InitSession ==
  /\ dir = [t \in Ids |-> 0]
  /\ nextGen = 1
  /\ inst = [g \in Gens |-> EmptyInst]
  /\ inBuf = [g \in Gens |-> <<>>]
  /\ outBuf = [g \in Gens |-> 0]
  /\ ep = [e \in Eps |-> NoEp]
  /\ nextEp = 1
  /\ drops = 0
  /\ dm = [d \in Daemons |-> NoDaemon]
  /\ nextD = 1
  /\ cl = [c \in Clients |-> NoClient]
  /\ marker = [i \in Ids |-> FALSE]
  /\ lock = [i \in Ids |-> NoLock]
  /\ host = [python |-> TRUE, server |-> rossh_version_index, changes |-> 0]

Init ==
  /\ InitSession
  /\ pf = NoFinder /\ cs = NoCodec /\ rx = NoReceiver /\ ins = NoInstall

\* ---- who has a FIFO open ------------------------------------------------
InW(g)  == {e \in Eps : ep[e].in = g}       \* writers of 'input'
OutR(g) == {e \in Eps : ep[e].out = g}      \* readers of 'output'
InR(g)  == {d \in Daemons : dm[d].in = g}   \* readers of 'input'
OutW(g) == {d \in Daemons : dm[d].out = g}  \* writers of 'output'

\* A FIFO whose last descriptor is closed loses what it holds: the kernel
\* frees the buffer of a pipe nobody has open.
InKept(f, m)  == [g \in Gens |-> IF \E e \in Eps : f[e].in = g THEN inBuf[g]
                                 ELSE IF \E d \in Daemons : m[d].in = g THEN inBuf[g]
                                 ELSE <<>>]
OutKept(f, m) == [g \in Gens |-> IF \E e \in Eps : f[e].out = g THEN outBuf[g]
                                 ELSE IF \E d \in Daemons : m[d].out = g THEN outBuf[g]
                                 ELSE 0]

EpAlive(e) == ep[e].pc \notin {"unborn", "dead"}
DAlive(d)  == dm[d].pc \notin {"unborn", "dead"}


\* ======================================================================
\* Connection endpoint (rossh_server.py)
\* ======================================================================
\* write_to(stdout_fileno, tok): blocks while the channel is full; a channel
\* whose client is gone swallows the bytes.
CanEmit(e) == ~ep[e].up \/ Len(ep[e].tx) < MaxLink
Emitted(r, tok) == IF r.up THEN Append(r.tx, tok) ELSE r.tx

\* The endpoint process ends (sys.exit, an uncaught exception or a fatal
\* signal): the kernel closes its descriptors and the remote /bin/sh that
\* ran the launch command prints its PS1 again.
Dead(r, why) ==
  [NoEp EXCEPT !.pc = "dead", !.why = why, !.up = r.up, !.tx = Emitted(r, TokP)]

At(r, pc) == [r EXCEPT !.pc = pc]

\* shutil.rmtree(RoSSH_DIR): every entry goes; the inodes of the FIFOs stay
\* with the processes that have them open.
RmTree(t) ==
  /\ dir' = [dir EXCEPT ![t] = 0]
  /\ inst' = [inst EXCEPT ![dir[t]] = EmptyInst]

\* pc at which an endpoint continues after the --kill loop
AfterKill(rest) == IF rest = <<>> THEN "c_exists" ELSE "k_check"

\* a variant of main_version without the comparison: the endpoint goes on
\* to the --kill loop whatever its version
main_version_unchecked(e) ==
  /\ ep[e].pc = "main"
  /\ ep' = [ep EXCEPT ![e] = [@ EXCEPT !.pc = AfterKill(ep[e].kill), !.ver = 0]]
  /\ UNCHANGED <<dir, nextGen, inst, inBuf, outBuf, nextEp, drops, dm, nextD, cl, marker, lock, host, pf, cs, rx, ins>>

\* __main__, lines 228-237: the version of the running script against the
\* -V of the launch command, which is the client's rossh_version_index
main_version(e) ==
  /\ ep[e].pc = "main"
  /\ IF ep[e].ver = rossh_version_index
       THEN ep' = [ep EXCEPT ![e] = [@ EXCEPT !.pc = AfterKill(ep[e].kill), !.ver = 0]]
       ELSE /\ CanEmit(e)
            /\ ep' = [ep EXCEPT ![e] =
                        Dead([@ EXCEPT !.tx = Emitted(ep[e],
                                IF ep[e].ver < rossh_version_index THEN TokU ELSE TokT)],
                             "version")]
  /\ UNCHANGED <<dir, nextGen, inst, inBuf, outBuf, nextEp, drops, dm, nextD, cl, marker, lock, host, pf, cs, rx, ins>>

\* destroy_if_exists, line 202: os.path.exists(RoSSH_DIR)
destroy_check(e) ==
  /\ ep[e].pc = "k_check"
  /\ ep' = [ep EXCEPT ![e] =
              IF dir[Head(@.kill)] = 0
                THEN [@ EXCEPT !.kill = Tail(@), !.pc = AfterKill(Tail(ep[e].kill))]
                ELSE At(@, "k_conn")]
  /\ UNCHANGED <<dir, nextGen, inst, inBuf, outBuf, nextEp, drops, dm, nextD, cl, marker, lock, host, pf, cs, rx, ins>>

\* os.kill(pid, sig) on an endpoint: ProcessLookupError is swallowed
SignalEp(f, p, sig) ==
  IF p \in Eps /\ f[p].pc \notin {"unborn", "dead"}
    THEN [f EXCEPT ![p] = IF sig = "hup" THEN [@ EXCEPT !.hup = TRUE]
                                         ELSE [@ EXCEPT !.int = TRUE]]
    ELSE f

\* destroy_if_exists, lines 203-210: SIGHUP to the pid in connection.pid
destroy_hup(e) ==
  /\ ep[e].pc = "k_conn"
  /\ LET g == dir[Head(ep[e].kill)]
         p == IF g = 0 THEN 0 ELSE inst[g].conn
     IN ep' = SignalEp([ep EXCEPT ![e] = At(@, "k_sess")], p, "hup")
  /\ UNCHANGED <<dir, nextGen, inst, inBuf, outBuf, nextEp, drops, dm, nextD, cl, marker, lock, host, pf, cs, rx, ins>>

\* destroy_if_exists, lines 212-219: SIGTERM to the pid in session.pid
destroy_term(e) ==
  /\ ep[e].pc = "k_sess"
  /\ LET g == dir[Head(ep[e].kill)]
         p == IF g = 0 THEN 0 ELSE inst[g].sess
     IN dm' = IF p # 0 /\ DAlive(p)
                THEN [dm EXCEPT ![p] = [@ EXCEPT !.sigterm = TRUE]] ELSE dm
  /\ ep' = [ep EXCEPT ![e] = At(@, "k_rm")]
  /\ UNCHANGED <<dir, nextGen, inst, inBuf, outBuf, nextEp, drops, nextD, cl, marker, lock, host, pf, cs, rx, ins>>

\* destroy_if_exists, line 221: shutil.rmtree (FileNotFoundError if a racing
\* process removed the directory first)
destroy_rmtree(e) ==
  /\ ep[e].pc = "k_rm"
  /\ IF dir[Head(ep[e].kill)] = 0
       THEN /\ ep' = [ep EXCEPT ![e] = Dead(@, "error")]
            /\ UNCHANGED <<dir, inst>>
       ELSE /\ RmTree(Head(ep[e].kill))
            /\ ep' = [ep EXCEPT ![e] = At(@, "k_emit")]
  /\ UNCHANGED <<nextGen, inBuf, outBuf, nextEp, drops, dm, nextD, cl, marker, lock, host, pf, cs, rx, ins>>

\* __main__, lines 241-243: print(build_ctlseq('KILLed:', oid))
destroy_emit(e) ==
  /\ ep[e].pc = "k_emit"
  /\ CanEmit(e)
  /\ ep' = [ep EXCEPT ![e] = [@ EXCEPT !.tx = Emitted(ep[e], TokK(Head(ep[e].kill))),
                                       !.kill = Tail(@),
                                       !.pc = AfterKill(Tail(ep[e].kill))]]
  /\ UNCHANGED <<dir, nextGen, inst, inBuf, outBuf, nextEp, drops, dm, nextD, cl, marker, lock, host, pf, cs, rx, ins>>

\* create_if_not_exists, lines 133-134: os.path.exists(RoSSH_DIR)
create_exists(e) ==
  /\ ep[e].pc = "c_exists"
  /\ ep' = [ep EXCEPT ![e] = At(@, IF dir[@.term] # 0 THEN "a_check" ELSE "c_mkdir")]
  /\ UNCHANGED <<dir, nextGen, inst, inBuf, outBuf, nextEp, drops, dm, nextD, cl, marker, lock, host, pf, cs, rx, ins>>

\* create_if_not_exists, line 135: os.mkdir (FileExistsError is not caught)
create_mkdir(e) ==
  /\ ep[e].pc = "c_mkdir"
  /\ IF dir[ep[e].term] # 0
       THEN /\ ep' = [ep EXCEPT ![e] = Dead(@, "error")]
            /\ UNCHANGED <<dir, nextGen>>
       ELSE /\ nextGen <= MaxGen
            /\ dir' = [dir EXCEPT ![ep[e].term] = nextGen]
            /\ nextGen' = nextGen + 1
            /\ ep' = [ep EXCEPT ![e] = At(@, "c_fifo_in")]
  /\ UNCHANGED <<inst, inBuf, outBuf, nextEp, drops, dm, nextD, cl, marker, lock, host, pf, cs, rx, ins>>

\* create_session_daemon, line 86: os.mkfifo(RoSSH_INPUT_PIPE_PATH)
create_mkfifo_in(e) ==
  /\ ep[e].pc = "c_fifo_in"
  /\ LET g == dir[ep[e].term] IN
     IF g = 0 \/ inst[g].input # "none"
       THEN /\ ep' = [ep EXCEPT ![e] = Dead(@, "error")]
            /\ UNCHANGED inst
       ELSE /\ inst' = [inst EXCEPT ![g].input = "fifo"]
            /\ ep' = [ep EXCEPT ![e] = At(@, "c_fifo_out")]
  /\ UNCHANGED <<dir, nextGen, inBuf, outBuf, nextEp, drops, dm, nextD, cl, marker, lock, host, pf, cs, rx, ins>>

\* create_session_daemon, line 87: os.mkfifo(RoSSH_OUTPUT_PIPE_PATH)
create_mkfifo_out(e) ==
  /\ ep[e].pc = "c_fifo_out"
  /\ LET g == dir[ep[e].term] IN
     IF g = 0 \/ inst[g].output # "none"
       THEN /\ ep' = [ep EXCEPT ![e] = Dead(@, "error")]
            /\ UNCHANGED inst
       ELSE /\ inst' = [inst EXCEPT ![g].output = "fifo"]
            /\ ep' = [ep EXCEPT ![e] = At(@, "c_fork")]
  /\ UNCHANGED <<dir, nextGen, inBuf, outBuf, nextEp, drops, dm, nextD, cl, marker, lock, host, pf, cs, rx, ins>>

\* create_session_daemon, lines 89-110: os.fork(); the parent writes
\* session.pid (FileNotFoundError if the directory is gone), the child
\* becomes the daemon, spawns the shell and enters copy_to_daemon.
create_fork(e) ==
  /\ ep[e].pc = "c_fork"
  /\ nextD <= MaxGen
  /\ dm' = [dm EXCEPT ![nextD] = [NoDaemon EXCEPT !.pc = "d_openIn",
                                                  !.term = ep[e].term,
                                                  !.shell = "alive"]]
  /\ nextD' = nextD + 1
  /\ IF dir[ep[e].term] = 0
       THEN /\ ep' = [ep EXCEPT ![e] = Dead(@, "error")]
            /\ UNCHANGED inst
       ELSE /\ inst' = [inst EXCEPT ![dir[ep[e].term]].sess = nextD]
            /\ ep' = [ep EXCEPT ![e] = At(@, "a_check")]
  /\ UNCHANGED <<dir, nextGen, inBuf, outBuf, nextEp, drops, cl, marker, lock, host, pf, cs, rx, ins>>

\* attach, lines 139-147: SIGINT to the pid found in connection.pid
attach_preempt(e) ==
  /\ ep[e].pc = "a_check"
  /\ LET g == dir[ep[e].term]
         p == IF g = 0 THEN 0 ELSE inst[g].conn
     IN ep' = SignalEp([ep EXCEPT ![e] = At(@, "a_write")], p, "int")
  /\ UNCHANGED <<dir, nextGen, inst, inBuf, outBuf, nextEp, drops, dm, nextD, cl, marker, lock, host, pf, cs, rx, ins>>

\* attach, lines 149-160: write the own pid to connection.pid and install
\* onhup_delpid (FileNotFoundError if the directory is gone)
attach_register(e) ==
  /\ ep[e].pc = "a_write"
  /\ IF dir[ep[e].term] = 0
       THEN /\ ep' = [ep EXCEPT ![e] = Dead(@, "error")]
            /\ UNCHANGED inst
       ELSE /\ inst' = [inst EXCEPT ![dir[ep[e].term]].conn = e]
            /\ ep' = [ep EXCEPT ![e] = At(@, "a_openIn")]
  /\ UNCHANGED <<dir, nextGen, inBuf, outBuf, nextEp, drops, dm, nextD, cl, marker, lock, host, pf, cs, rx, ins>>

\* attach, line 162: open(RoSSH_INPUT_PIPE_PATH, 'w') enters the kernel: the
\* path is resolved and the writer is counted; mode 'w' creates a regular
\* file when there is no entry yet.
attach_open_input(e) ==
  /\ ep[e].pc = "a_openIn"
  /\ LET g == dir[ep[e].term] IN
     IF g = 0
       THEN /\ ep' = [ep EXCEPT ![e] = Dead(@, "error")]
            /\ UNCHANGED inst
       ELSE IF inst[g].input = "fifo"
         THEN /\ ep' = [ep EXCEPT ![e] = [@ EXCEPT !.in = g, !.pc = "a_openInW"]]
              /\ UNCHANGED inst
         ELSE /\ ep' = [ep EXCEPT ![e] = [@ EXCEPT !.in = RegularFile, !.pc = "a_openOut"]]
              /\ inst' = [inst EXCEPT ![g].input = "file"]
  /\ UNCHANGED <<dir, nextGen, inBuf, outBuf, nextEp, drops, dm, nextD, cl, marker, lock, host, pf, cs, rx, ins>>

\* attach, line 162: the open returns once the FIFO has a reader
attach_open_input_done(e) ==
  /\ ep[e].pc = "a_openInW"
  /\ InR(ep[e].in) # {}
  /\ ep' = [ep EXCEPT ![e] = At(@, "a_openOut")]
  /\ UNCHANGED <<dir, nextGen, inst, inBuf, outBuf, nextEp, drops, dm, nextD, cl, marker, lock, host, pf, cs, rx, ins>>

\* attach, line 164: open(RoSSH_OUTPUT_PIPE_PATH, 'r') enters the kernel
attach_open_output(e) ==
  /\ ep[e].pc = "a_openOut"
  /\ LET g == dir[ep[e].term] IN
     ep' = [ep EXCEPT ![e] =
              IF g = 0 \/ inst[g].output = "none" THEN Dead(@, "error")
              ELSE IF inst[g].output = "fifo"
                THEN [@ EXCEPT !.out = g, !.pc = "a_openOutW"]
                ELSE [@ EXCEPT !.out = RegularFile, !.pc = "a_connS"]]
  /\ inBuf' = InKept(ep', dm) /\ outBuf' = OutKept(ep', dm)
  /\ UNCHANGED <<dir, nextGen, inst, nextEp, drops, dm, nextD, cl, marker, lock, host, pf, cs, rx, ins>>

\* attach, line 164: the open returns once the FIFO has a writer
attach_open_output_done(e) ==
  /\ ep[e].pc = "a_openOutW"
  /\ OutW(ep[e].out) # {}
  /\ ep' = [ep EXCEPT ![e] = At(@, "a_connS")]
  /\ UNCHANGED <<dir, nextGen, inst, inBuf, outBuf, nextEp, drops, dm, nextD, cl, marker, lock, host, pf, cs, rx, ins>>

\* a variant of attach_connS that enters the relay without writing the frame
attach_connS_skipped(e) ==
  /\ ep[e].pc = "a_connS"
  /\ ep' = [ep EXCEPT ![e] = At(@, "a_ws")]
  /\ UNCHANGED <<dir, nextGen, inst, inBuf, outBuf, nextEp, drops, dm, nextD, cl, marker, lock, host, pf, cs, rx, ins>>

\* attach, lines 170-171: write_to(stdout_fileno, build_ctlseq(b'CONN:S'))
attach_connS(e) ==
  /\ ep[e].pc = "a_connS"
  /\ CanEmit(e)
  /\ ep' = [ep EXCEPT ![e] = [@ EXCEPT !.tx = Emitted(ep[e], TokS),
                                       !.connS = TRUE, !.pc = "a_ws"]]
  /\ UNCHANGED <<dir, nextGen, inst, inBuf, outBuf, nextEp, drops, dm, nextD, cl, marker, lock, host, pf, cs, rx, ins>>

\* os.write(input_fileno, tok) by the endpoint: EPIPE (BrokenPipeError, not
\* caught) when the FIFO has no reader; it blocks while the FIFO is full.
InputWritable(e) ==
  \/ ep[e].in = RegularFile
  \/ InR(ep[e].in) = {}
  \/ Len(inBuf[ep[e].in]) < MaxBuf

WriteInput(e, tok) ==
  IF ep[e].in = RegularFile
    THEN /\ ep' = [ep EXCEPT ![e] = At(@, "relay")]
         /\ UNCHANGED inBuf
    ELSE IF InR(ep[e].in) = {}
      THEN /\ ep' = [ep EXCEPT ![e] = Dead(@, "error")]
           /\ inBuf' = InKept(ep', dm)
      ELSE /\ inBuf' = [inBuf EXCEPT ![ep[e].in] = Append(@, tok)]
           /\ ep' = [ep EXCEPT ![e] = At(@, "relay")]

\* attach, line 173 with forward_window_resize, lines 94-105: on entry (and
\* on SIGWINCH) resize_window() writes a WS frame into the input pipe
resize_window(e) ==
  /\ ep[e].pc = "a_ws"
  /\ InputWritable(e)
  /\ WriteInput(e, "WS")
  /\ outBuf' = OutKept(ep', dm)
  /\ UNCHANGED <<dir, nextGen, inst, nextEp, drops, dm, nextD, cl, marker, lock, host, pf, cs, rx, ins>>

\* attach, lines 179-185: standard input has data while the client relays
relay_stdin(e) ==
  /\ ep[e].pc = "relay"
  /\ ep[e].up
  /\ \E c \in Clients : cl[c].link = e /\ cl[c].pc = "relay"
  /\ InputWritable(e)
  /\ WriteInput(e, "d")
  /\ outBuf' = OutKept(ep', dm)
  /\ UNCHANGED <<dir, nextGen, inst, nextEp, drops, dm, nextD, cl, marker, lock, host, pf, cs, rx, ins>>

\* attach, lines 181-183: standard input at EOF, sys.exit(1)
relay_stdin_eof(e) ==
  /\ ep[e].pc = "relay"
  /\ ~ep[e].up
  /\ ep' = [ep EXCEPT ![e] = Dead(@, "stdinEOF")]
  /\ inBuf' = InKept(ep', dm) /\ outBuf' = OutKept(ep', dm)
  /\ UNCHANGED <<dir, nextGen, inst, nextEp, drops, dm, nextD, cl, marker, lock, host, pf, cs, rx, ins>>

\* attach, lines 187-193: a chunk of shell output goes to stdout
relay_output(e) ==
  /\ ep[e].pc = "relay"
  /\ ep[e].out # RegularFile
  /\ outBuf[ep[e].out] > 0
  /\ CanEmit(e)
  /\ outBuf' = [outBuf EXCEPT ![ep[e].out] = @ - 1]
  /\ ep' = [ep EXCEPT ![e] = [@ EXCEPT !.tx = Emitted(ep[e], TokOut), !.fwd = TRUE]]
  /\ UNCHANGED <<dir, nextGen, inst, inBuf, nextEp, drops, dm, nextD, cl, marker, lock, host, pf, cs, rx, ins>>

\* attach, lines 189-191: EOF on the output pipe (no writer left), break
relay_output_eof(e) ==
  /\ ep[e].pc = "relay"
  /\ \/ ep[e].out = RegularFile
     \/ OutW(ep[e].out) = {} /\ outBuf[ep[e].out] = 0
  /\ ep' = [ep EXCEPT ![e] = At(@, "e_rmtree")]
  /\ UNCHANGED <<dir, nextGen, inst, inBuf, outBuf, nextEp, drops, dm, nextD, cl, marker, lock, host, pf, cs, rx, ins>>

\* attach, line 196: shutil.rmtree(RoSSH_DIR)
attach_rmtree(e) ==
  /\ ep[e].pc = "e_rmtree"
  /\ IF dir[ep[e].term] = 0
       THEN /\ ep' = [ep EXCEPT ![e] = Dead(@, "error")]
            /\ UNCHANGED <<dir, inst>>
       ELSE /\ RmTree(ep[e].term)
            /\ ep' = [ep EXCEPT ![e] = At(@, "e_connE")]
  /\ inBuf' = InKept(ep', dm) /\ outBuf' = OutKept(ep', dm)
  /\ UNCHANGED <<nextGen, nextEp, drops, dm, nextD, cl, marker, lock, host, pf, cs, rx, ins>>

\* a variant of attach_connE that does not move on: the frame is written
\* again and again
attach_connE_again(e) ==
  /\ ep[e].pc = "e_connE"
  /\ CanEmit(e)
  /\ ep' = [ep EXCEPT ![e] = [@ EXCEPT !.tx = Emitted(ep[e], TokE),
                                       !.connE = @ + 1]]
  /\ UNCHANGED <<dir, nextGen, inst, inBuf, outBuf, nextEp, drops, dm, nextD, cl, marker, lock, host, pf, cs, rx, ins>>

\* attach, line 198: write_to(stdout_fileno, build_ctlseq(b'CONN:E'))
attach_connE(e) ==
  /\ ep[e].pc = "e_connE"
  /\ CanEmit(e)
  /\ ep' = [ep EXCEPT ![e] = [@ EXCEPT !.tx = Emitted(ep[e], TokE),
                                       !.connE = @ + 1, !.pc = "e_exit"]]
  /\ UNCHANGED <<dir, nextGen, inst, inBuf, outBuf, nextEp, drops, dm, nextD, cl, marker, lock, host, pf, cs, rx, ins>>

\* attach, line 199, and the end of __main__: the process ends with status 0
attach_return(e) ==
  /\ ep[e].pc = "e_exit"
  /\ ep' = [ep EXCEPT ![e] = Dead(@, "graceful")]
  /\ inBuf' = InKept(ep', dm) /\ outBuf' = OutKept(ep', dm)
  /\ UNCHANGED <<dir, nextGen, inst, nextEp, drops, dm, nextD, cl, marker, lock, host, pf, cs, rx, ins>>

\* a variant of deliver_sigint that cleans up as onhup_delpid does: the
\* interrupted endpoint unlinks connection.pid before it ends
deliver_sigint_unlink(e) ==
  /\ EpAlive(e)
  /\ ep[e].int
  /\ inst' = IF dir[ep[e].term] # 0
               THEN [inst EXCEPT ![dir[ep[e].term]].conn = 0] ELSE inst
  /\ ep' = [ep EXCEPT ![e] = Dead(@, "sigint")]
  /\ inBuf' = InKept(ep', dm) /\ outBuf' = OutKept(ep', dm)
  /\ UNCHANGED <<dir, nextGen, nextEp, drops, dm, nextD, cl, marker, lock, host, pf, cs, rx, ins>>

\* SIGINT is delivered: Python's default handler raises KeyboardInterrupt,
\* which nothing in rossh_server.py catches (attach, line 145, sends it)
deliver_sigint(e) ==
  /\ EpAlive(e)
  /\ ep[e].int
  /\ ep' = [ep EXCEPT ![e] = Dead(@, "sigint")]
  /\ inBuf' = InKept(ep', dm) /\ outBuf' = OutKept(ep', dm)
  /\ UNCHANGED <<dir, nextGen, inst, nextEp, drops, dm, nextD, cl, marker, lock, host, pf, cs, rx, ins>>

\* onhup_delpid is installed from line 160 on
HupHandled(e) == ep[e].pc \in {"a_openIn", "a_openInW", "a_openOut", "a_openOutW",
                               "a_connS", "a_ws", "relay", "e_rmtree", "e_connE",
                               "e_exit"}

\* SIGHUP is delivered: onhup_delpid (lines 152-158) unlinks connection.pid
\* and exits 1; before line 160 the default action ends the process
onhup_delpid(e) ==
  /\ EpAlive(e)
  /\ ep[e].hup
  /\ inst' = IF HupHandled(e) /\ dir[ep[e].term] # 0
               THEN [inst EXCEPT ![dir[ep[e].term]].conn = 0] ELSE inst
  /\ ep' = [ep EXCEPT ![e] = Dead(@, "sighup")]
  /\ inBuf' = InKept(ep', dm) /\ outBuf' = OutKept(ep', dm)
  /\ UNCHANGED <<dir, nextGen, nextEp, drops, dm, nextD, cl, marker, lock, host, pf, cs, rx, ins>>

\* ======================================================================
\* Session daemon (create_session_daemon, lines 95-130, and copy_to_daemon)
\* ======================================================================
\* copy_to_daemon is left: through "finally" (lines 81-83) both pipes are
\* closed; an OSError raised before "try" (lines 51-54) closes nothing, so a
\* descriptor of the input pipe stays open until the process ends.
\* create_session_daemon, lines 122-123, swallows the OSError.
Left(r, why, closeIn) ==
  [r EXCEPT !.pc = "d_left", !.why = why, !.out = 0,
            !.in = IF closeIn THEN 0 ELSE @]

Gone(r) == [NoDaemon EXCEPT !.pc = "dead"]

\* copy_to_daemon, line 51: open(RoSSH_INPUT_PIPE_PATH, 'r') enters the kernel
copy_open_input(d) ==
  /\ dm[d].pc = "d_openIn"
  /\ LET g == dir[dm[d].term] IN
     dm' = [dm EXCEPT ![d] =
              IF g = 0 \/ inst[g].input = "none" THEN Left(@, "error", TRUE)
              ELSE IF inst[g].input = "fifo"
                THEN [@ EXCEPT !.in = g, !.pc = "d_openInW"]
                ELSE [@ EXCEPT !.in = RegularFile, !.pc = "d_openOut"]]
  /\ UNCHANGED <<dir, nextGen, inst, inBuf, outBuf, ep, nextEp, drops, nextD, cl, marker, lock, host, pf, cs, rx, ins>>

\* copy_to_daemon, line 51: the open returns once the FIFO has a writer
copy_open_input_done(d) ==
  /\ dm[d].pc = "d_openInW"
  /\ InW(dm[d].in) # {}
  /\ dm' = [dm EXCEPT ![d].pc = "d_openOut"]
  /\ UNCHANGED <<dir, nextGen, inst, inBuf, outBuf, ep, nextEp, drops, nextD, cl, marker, lock, host, pf, cs, rx, ins>>

\* copy_to_daemon, line 53: open(RoSSH_OUTPUT_PIPE_PATH, 'w') enters the kernel
copy_open_output(d) ==
  /\ dm[d].pc = "d_openOut"
  /\ LET g == dir[dm[d].term] IN
     IF g = 0
       THEN /\ dm' = [dm EXCEPT ![d] = Left(@, "error", FALSE)]
            /\ UNCHANGED inst
       ELSE IF inst[g].output = "fifo"
         THEN /\ dm' = [dm EXCEPT ![d] = [@ EXCEPT !.out = g, !.pc = "d_openOutW"]]
              /\ UNCHANGED inst
         ELSE /\ dm' = [dm EXCEPT ![d] = [@ EXCEPT !.out = RegularFile, !.pc = "d_loop"]]
              /\ inst' = [inst EXCEPT ![g].output = "file"]
  /\ UNCHANGED <<dir, nextGen, inBuf, outBuf, ep, nextEp, drops, nextD, cl, marker, lock, host, pf, cs, rx, ins>>

\* copy_to_daemon, line 53: the open returns once the FIFO has a reader
copy_open_output_done(d) ==
  /\ dm[d].pc = "d_openOutW"
  /\ OutR(dm[d].out) # {}
  /\ dm' = [dm EXCEPT ![d].pc = "d_loop"]
  /\ UNCHANGED <<dir, nextGen, inst, inBuf, outBuf, ep, nextEp, drops, nextD, cl, marker, lock, host, pf, cs, rx, ins>>

\* copy_to_daemon, lines 61-66: the shell printed something; write_to on the
\* output pipe raises BrokenPipeError when the pipe has no reader
copy_master(d) ==
  /\ dm[d].pc = "d_loop"
  /\ dm[d].shell = "alive"
  /\ IF dm[d].out = RegularFile
       THEN UNCHANGED <<dm, inBuf, outBuf>>
       ELSE IF OutR(dm[d].out) = {}
         THEN /\ dm' = [dm EXCEPT ![d] = Left(@, "epipe", TRUE)]
              /\ inBuf' = InKept(ep, dm') /\ outBuf' = OutKept(ep, dm')
         ELSE /\ outBuf[dm[d].out] < MaxBuf
              /\ outBuf' = [outBuf EXCEPT ![dm[d].out] = @ + 1]
              /\ UNCHANGED <<dm, inBuf>>
  /\ UNCHANGED <<dir, nextGen, inst, ep, nextEp, drops, nextD, cl, marker, lock, host, pf, cs, rx, ins>>

\* copy_to_daemon, lines 62-64: EOF on the master (the shell is gone), break
copy_master_eof(d) ==
  /\ dm[d].pc = "d_loop"
  /\ dm[d].shell = "exited"
  /\ dm' = [dm EXCEPT ![d] = Left(@, "eof", TRUE)]
  /\ inBuf' = InKept(ep, dm') /\ outBuf' = OutKept(ep, dm')
  /\ UNCHANGED <<dir, nextGen, inst, ep, nextEp, drops, nextD, cl, marker, lock, host, pf, cs, rx, ins>>

\* copy_to_daemon, lines 68-69 and 79-80: a chunk from the input pipe goes to
\* write_to_master_fd
copy_input(d) ==
  /\ dm[d].pc = "d_loop"
  /\ dm[d].in # RegularFile
  /\ inBuf[dm[d].in] # <<>>
  /\ inBuf' = [inBuf EXCEPT ![dm[d].in] = Tail(@)]
  /\ UNCHANGED <<dir, nextGen, inst, outBuf, ep, nextEp, drops, dm, nextD, cl, marker, lock, host, pf, cs, rx, ins>>

\* copy_to_daemon, lines 70-78: EOF on the input pipe; close it and open it
\* again (the path is resolved anew)
copy_input_eof(d) ==
  /\ dm[d].pc = "d_loop"
  /\ \/ dm[d].in = RegularFile
     \/ InW(dm[d].in) = {} /\ inBuf[dm[d].in] = <<>>
  /\ LET g == dir[dm[d].term] IN
     dm' = [dm EXCEPT ![d] =
              IF g = 0 \/ inst[g].input = "none" THEN Left(@, "error", TRUE)
              ELSE IF inst[g].input = "fifo"
                THEN [@ EXCEPT !.in = g, !.pc = "d_reopenW"]
                ELSE [@ EXCEPT !.in = RegularFile]]
  /\ inBuf' = InKept(ep, dm') /\ outBuf' = OutKept(ep, dm')
  /\ UNCHANGED <<dir, nextGen, inst, ep, nextEp, drops, nextD, cl, marker, lock, host, pf, cs, rx, ins>>

\* copy_to_daemon, line 76: the open returns once the FIFO has a writer
copy_reopen_done(d) ==
  /\ dm[d].pc = "d_reopenW"
  /\ InW(dm[d].in) # {}
  /\ dm' = [dm EXCEPT ![d].pc = "d_loop"]
  /\ UNCHANGED <<dir, nextGen, inst, inBuf, outBuf, ep, nextEp, drops, nextD, cl, marker, lock, host, pf, cs, rx, ins>>

\* SIGTERM is delivered. Inside "with change_signal" (line 119)
\* sigterm_handler (lines 112-117) raises OSError, which ends copy_to_daemon
\* (a blocked open is abandoned). After line 123 the default action ends the
\* process.
sigterm_handler(d) ==
  /\ DAlive(d)
  /\ dm[d].sigterm
  /\ dm' = [dm EXCEPT ![d] =
              IF @.pc = "d_left" THEN Gone(@)
              ELSE [Left(@, "sigterm", @.pc \notin {"d_openOut", "d_openOutW"})
                      EXCEPT !.sigterm = FALSE]]
  /\ inBuf' = InKept(ep, dm') /\ outBuf' = OutKept(ep, dm')
  /\ UNCHANGED <<dir, nextGen, inst, ep, nextEp, drops, nextD, cl, marker, lock, host, pf, cs, rx, ins>>

\* create_session_daemon, lines 125-130: os.close(master_fd), os.waitpid
\* returns when the shell is gone, sys.exit(0)
daemon_exit(d) ==
  /\ dm[d].pc = "d_left"
  /\ dm[d].shell = "exited"
  /\ dm' = [dm EXCEPT ![d] = Gone(@)]
  /\ inBuf' = InKept(ep, dm') /\ outBuf' = OutKept(ep, dm')
  /\ UNCHANGED <<dir, nextGen, inst, ep, nextEp, drops, nextD, cl, marker, lock, host, pf, cs, rx, ins>>

\* the shell spawned at lines 106-110 ends: the user typed exit, or it got
\* the hangup of its terminal
shell_exit(d) ==
  /\ dm[d].shell = "alive"
  /\ dm' = [dm EXCEPT ![d].shell = "exited"]
  /\ UNCHANGED <<dir, nextGen, inst, inBuf, outBuf, ep, nextEp, drops, nextD, cl, marker, lock, host, pf, cs, rx, ins>>

\* ======================================================================
\* Client controller (rossh_client.py)
\* ======================================================================
\* the client process ends: the kernel drops every flock it holds
Released(c) == [i \in Ids |-> IF lock[i][1] = c THEN NoLock ELSE lock[i]]

Exited(r, why) == [NoClient EXCEPT !.pc = "exited", !.why = why]

\* connect, lines 280-293, and attach, lines 392-402: os.close(master_fd) and
\* os.kill(ssh_pid, SIGINT) end the secure-shell channel of the attempt
HungUp(f, e) == IF e \in Eps THEN [f EXCEPT ![e] = [@ EXCEPT !.up = FALSE, !.tx = <<>>]]
                ELSE f

\* __main__, lines 404-410: a client process is started
client_start(c) ==
  /\ cl[c].pc = "idle"
  /\ cl' = [cl EXCEPT ![c].pc = "connect"]
  /\ UNCHANGED <<dir, nextGen, inst, inBuf, outBuf, ep, nextEp, drops, dm, nextD, marker, lock, host, pf, cs, rx, ins>>

\* connect, lines 249-262, and init_connection, lines 84-111: ssh is forked
\* and either reaches the first PROMPT or its master closes (ConnectionError,
\* lines 90-91 and 270-293)
connect(c) ==
  /\ cl[c].pc = "connect"
  /\ nextEp <= MaxEp
  /\ \E ok \in BOOLEAN :
       cl' = [cl EXCEPT ![c] = [@ EXCEPT !.pc = IF ok THEN "launch" ELSE "retry",
                                         !.second = FALSE, !.seenS = FALSE,
                                         !.ret = <<>>, !.launches = 0,
                                         !.installs = 0, !.key = "none"]]
  /\ UNCHANGED <<dir, nextGen, inst, inBuf, outBuf, ep, nextEp, drops, dm, nextD, marker, lock, host, pf, cs, rx, ins>>

\* arg_orphaned_sessions, lines 57-58: os.listdir(curdir)
scan_list(c) ==
  /\ cl[c].pc = "launch"
  /\ cl' = [cl EXCEPT ![c] = [@ EXCEPT !.todo = {i \in Ids : marker[i]},
                                       !.ret = <<>>, !.pc = "scan"]]
  /\ UNCHANGED <<dir, nextGen, inst, inBuf, outBuf, ep, nextEp, drops, dm, nextD, marker, lock, host, pf, cs, rx, ins>>

\* lock_fd on a descriptor of .orphan.<i>: flock(LOCK_EX | LOCK_NB) succeeds
\* only if no other open file description holds the lock
CanLock(i) == lock[i] = NoLock

\* a variant of scan_probe that takes every marker it can open for an orphan,
\* whether or not the lock was acquired
scan_probe_unlocked(c) ==
  /\ cl[c].pc = "scan"
  /\ \E i \in cl[c].todo :
       IF marker[i]
         THEN /\ lock' = IF CanLock(i) THEN [lock EXCEPT ![i] = <<c, "scan">>] ELSE lock
              /\ cl' = [cl EXCEPT ![c] = [@ EXCEPT !.probing = i, !.pc = "scan_close"]]
         ELSE /\ cl' = [cl EXCEPT ![c].todo = @ \ {i}]
              /\ UNCHANGED lock
  /\ UNCHANGED <<dir, nextGen, inst, inBuf, outBuf, ep, nextEp, drops, dm, nextD, marker, host, pf, cs, rx, ins>>

\* arg_orphaned_sessions, lines 59-66: open the marker and try the lock; an
\* OSError (the file is gone, or the lock is held) means "locked"
scan_probe(c) ==
  /\ cl[c].pc = "scan"
  /\ \E i \in cl[c].todo :
       IF marker[i] /\ CanLock(i)
         THEN /\ lock' = [lock EXCEPT ![i] = <<c, "scan">>]
              /\ cl' = [cl EXCEPT ![c] = [@ EXCEPT !.probing = i, !.pc = "scan_close"]]
         ELSE /\ cl' = [cl EXCEPT ![c].todo = @ \ {i}]
              /\ UNCHANGED lock
  /\ UNCHANGED <<dir, nextGen, inst, inBuf, outBuf, ep, nextEp, drops, dm, nextD, marker, host, pf, cs, rx, ins>>

\* arg_orphaned_sessions, lines 62 and 67: leaving "with" closes the file
\* (the lock goes with it); the id is appended to ret
scan_close(c) ==
  /\ cl[c].pc = "scan_close"
  /\ lock' = [lock EXCEPT ![cl[c].probing] = NoLock]
  /\ cl' = [cl EXCEPT ![c] = [@ EXCEPT !.ret = Append(@, cl[c].probing),
                                       !.todo = @ \ {cl[c].probing},
                                       !.probing = 0, !.pc = "scan"]]
  /\ UNCHANGED <<dir, nextGen, inst, inBuf, outBuf, ep, nextEp, drops, dm, nextD, marker, host, pf, cs, rx, ins>>

\* What the remote /bin/sh makes of the launch command: without the script
\* it reports "not found"; with the script (#!/usr/bin/env python3) and no
\* python3, env reports "/usr/bin/env: python3: No such file or directory";
\* either way the shell then prints its PS1. Otherwise rossh_server.py runs.
Launched(c) ==
  IF host.server = 0
    THEN [NoEp EXCEPT !.pc = "dead", !.why = "notfound", !.up = TRUE,
                      !.tx = <<TokP>>]
  ELSE IF ~host.python
    THEN [NoEp EXCEPT !.pc = "dead", !.why = "nopython", !.up = TRUE,
                      !.tx = <<TokEnv, TokNoF, TokP>>]
  ELSE [NoEp EXCEPT !.pc = "main", !.term = c, !.kill = cl[c].ret, !.up = TRUE,
                    !.ver = host.server]

\* init_connection, lines 117-126: the launch command with -V <version>,
\* -t <term_id> and --kill <ret> is written to the remote shell
launch(c) ==
  /\ cl[c].pc = "scan"
  /\ cl[c].todo = {}
  /\ nextEp <= MaxEp
  /\ ep' = [HungUp(ep, cl[c].link) EXCEPT ![nextEp] = Launched(c)]
  /\ nextEp' = nextEp + 1
  /\ UNCHANGED drops
  /\ cl' = [cl EXCEPT ![c] = [@ EXCEPT !.link = nextEp, !.launches = @ + 1,
                                       !.pc = "waitS"]]
  /\ UNCHANGED <<dir, nextGen, inst, inBuf, outBuf, dm, nextD, marker, lock, host, pf, cs, rx, ins>>

Has(chunk, k) == \E j \in 1..Len(chunk) : chunk[j][1] = k

\* position of the first token of kind k in a chunk, 0 if there is none
FirstOf(chunk, k) ==
  IF Has(chunk, k)
    THEN CHOOSE j \in 1..Len(chunk) :
           /\ chunk[j][1] = k
           /\ \A h \in 1..(j - 1) : chunk[h][1] # k
    ELSE 0

\* find_ctlseq_param(data, 'KILLed:') as init_connection uses it, lines
\* 141-151: the first KILLed frame of the chunk only; data becomes what
\* follows that frame
AfterKilled(chunk) ==
  IF FirstOf(chunk, "K") = 0 THEN chunk
  ELSE SubSeq(chunk, FirstOf(chunk, "K") + 1, Len(chunk))

KilledId(chunk) ==
  IF FirstOf(chunk, "K") = 0 THEN 0 ELSE chunk[FirstOf(chunk, "K")][2]

\* a variant of read_launch that does not look at is_second_try: every
\* PROMPT starts the install sequence
read_launch_reinstall(c) ==
  /\ cl[c].pc = "waitS"
  /\ \E n \in 1..Len(ep[cl[c].link].tx) :
       LET e     == cl[c].link
           chunk == SubSeq(ep[e].tx, 1, n)
           rest  == SubSeq(ep[e].tx, n + 1, Len(ep[e].tx))
           data  == AfterKilled(chunk)
       IN /\ marker' = IF KilledId(chunk) # 0
                         THEN [marker EXCEPT ![KilledId(chunk)] = FALSE]
                         ELSE marker
          /\ IF Has(data, "S")
               THEN /\ cl' = [cl EXCEPT ![c] = [@ EXCEPT !.seenS = TRUE, !.pc = "mark"]]
                    /\ ep' = [ep EXCEPT ![e].tx = rest]
                    /\ UNCHANGED lock
               ELSE IF Has(data, "T") \/ (Has(data, "env") /\ Has(data, "nof"))
                 THEN /\ cl' = [cl EXCEPT ![c] = Exited(@, "fatal")]
                      /\ ep' = HungUp(ep, e)
                      /\ lock' = Released(c)
               ELSE IF Has(data, "P")
                 THEN /\ IF FALSE
                           THEN /\ cl' = [cl EXCEPT ![c] = [@ EXCEPT !.pc = "retry", !.link = 0]]
                                /\ ep' = HungUp(ep, e)
                           ELSE /\ cl' = [cl EXCEPT ![c].pc = "install"]
                                /\ ep' = [ep EXCEPT ![e].tx = rest]
                      /\ UNCHANGED lock
                 ELSE /\ ep' = [ep EXCEPT ![e].tx = rest]
                      /\ UNCHANGED <<cl, lock>>
  /\ UNCHANGED <<dir, nextGen, inst, inBuf, outBuf, nextEp, drops, dm, nextD, host, pf, cs, rx, ins>>

\* init_connection, lines 133-202: one os.read of the launch loop. CONN:S
\* ends init_connection; CLIENT_TOOOLD, or both parts of env's complaint in
\* the data of this read, raise ConnectionFatalError (attach, lines 306-309,
\* returns); a PROMPT starts the install or, on the second try, raises
\* ConnectionError (connect then closes the channel).
read_launch(c) ==
  /\ cl[c].pc = "waitS"
  /\ \E n \in 1..Len(ep[cl[c].link].tx) :
       LET e     == cl[c].link
           chunk == SubSeq(ep[e].tx, 1, n)
           rest  == SubSeq(ep[e].tx, n + 1, Len(ep[e].tx))
           data  == AfterKilled(chunk)
       IN /\ marker' = IF KilledId(chunk) # 0
                         THEN [marker EXCEPT ![KilledId(chunk)] = FALSE]
                         ELSE marker
          /\ IF Has(data, "S")
               THEN /\ cl' = [cl EXCEPT ![c] = [@ EXCEPT !.seenS = TRUE, !.pc = "mark"]]
                    /\ ep' = [ep EXCEPT ![e].tx = rest]
                    /\ UNCHANGED lock
               ELSE IF Has(data, "T") \/ (Has(data, "env") /\ Has(data, "nof"))
                 THEN /\ cl' = [cl EXCEPT ![c] = Exited(@, "fatal")]
                      /\ ep' = HungUp(ep, e)
                      /\ lock' = Released(c)
               ELSE IF Has(data, "P")
                 THEN /\ IF cl[c].second
                           THEN /\ cl' = [cl EXCEPT ![c] = [@ EXCEPT !.pc = "retry", !.link = 0]]
                                /\ ep' = HungUp(ep, e)
                           ELSE /\ cl' = [cl EXCEPT ![c].pc = "install"]
                                /\ ep' = [ep EXCEPT ![e].tx = rest]
                      /\ UNCHANGED lock
                 ELSE /\ ep' = [ep EXCEPT ![e].tx = rest]
                      /\ UNCHANGED <<cl, lock>>
  /\ UNCHANGED <<dir, nextGen, inst, inBuf, outBuf, nextEp, drops, dm, nextD, host, pf, cs, rx, ins>>

\* init_connection, lines 203-242: the install sequence (every run_cmd waits
\* for the next PROMPT) leaves this client's scripts in ~/.rossh;
\* RuntimeError 'Unexpected EOF running command' if the channel closes, which
\* connect re-raises and attach, lines 310-313, ends on
install(c) ==
  /\ cl[c].pc = "install"
  /\ IF ep[cl[c].link].up
       THEN /\ cl' = [cl EXCEPT ![c] = [@ EXCEPT !.second = TRUE, !.installs = @ + 1,
                                                 !.pc = "launch"]]
            /\ host' = [host EXCEPT !.server = rossh_version_index]
            /\ UNCHANGED <<ep, lock>>
       ELSE /\ cl' = [cl EXCEPT ![c] = Exited(@, "fatal")]
            /\ ep' = HungUp(ep, cl[c].link)
            /\ lock' = Released(c)
            /\ UNCHANGED host
  /\ UNCHANGED <<dir, nextGen, inst, inBuf, outBuf, nextEp, drops, dm, nextD, marker, pf, cs, rx, ins>>

\* init_connection, lines 136-137: os.read returns b'' (ConnectionError);
\* connect, lines 270-293, cleans up and returns (None, None)
read_launch_eof(c) ==
  /\ cl[c].pc = "waitS"
  /\ ~ep[cl[c].link].up
  /\ ep' = HungUp(ep, cl[c].link)
  /\ cl' = [cl EXCEPT ![c] = [@ EXCEPT !.pc = "retry", !.link = 0]]
  /\ UNCHANGED <<dir, nextGen, inst, inBuf, outBuf, nextEp, drops, dm, nextD, marker, lock, host, pf, cs, rx, ins>>

\* a variant of client_mark that does not look at session_created
client_mark_always(c) ==
  /\ cl[c].pc = "mark"
  /\ cl' = [cl EXCEPT ![c] = [@ EXCEPT !.created = TRUE, !.nMarks = @ + 1,
                                        !.pc = "lock"]]
  /\ marker' = [marker EXCEPT ![c] = TRUE]
  /\ UNCHANGED <<dir, nextGen, inst, inBuf, outBuf, ep, nextEp, drops, dm, nextD, lock, host, pf, cs, rx, ins>>

\* attach, lines 339-344: at the first successful connect the marker
\* .orphan.<term_id> is created by open(..., 'w')
client_mark(c) ==
  /\ cl[c].pc = "mark"
  /\ IF cl[c].created
       THEN /\ cl' = [cl EXCEPT ![c].pc = "relay"]
            /\ UNCHANGED marker
       ELSE /\ cl' = [cl EXCEPT ![c] = [@ EXCEPT !.created = TRUE, !.nMarks = @ + 1,
                                                 !.pc = "lock"]]
            /\ marker' = [marker EXCEPT ![c] = TRUE]
  /\ UNCHANGED <<dir, nextGen, inst, inBuf, outBuf, ep, nextEp, drops, dm, nextD, lock, host, pf, cs, rx, ins>>

\* attach, line 345: lock_fd(f_session_orphan); BlockingIOError is not
\* caught, the client process ends with a traceback
client_lock(c) ==
  /\ cl[c].pc = "lock"
  /\ IF CanLock(c)
       THEN /\ lock' = [lock EXCEPT ![c] = <<c, "own">>]
            /\ cl' = [cl EXCEPT ![c].pc = "relay"]
            /\ UNCHANGED ep
       ELSE /\ lock' = Released(c)
            /\ cl' = [cl EXCEPT ![c] = Exited(@, "error")]
            /\ ep' = HungUp(ep, cl[c].link)
  /\ UNCHANGED <<dir, nextGen, inst, inBuf, outBuf, nextEp, drops, dm, nextD, marker, host, pf, cs, rx, ins>>

\* attach, lines 359-385: one os.read of the connected relay. On CONN:E the
\* marker is closed and unlinked and attach returns; a FileNotFoundError of
\* the unlink is an IOError, caught at line 387 ("SSH disconnected"). The
\* "finally" of lines 392-402 ends the channel either way.
relay_read(c) ==
  /\ cl[c].pc = "relay"
  /\ \E n \in 1..Len(ep[cl[c].link].tx) :
       LET e     == cl[c].link
           chunk == SubSeq(ep[e].tx, 1, n)
       IN IF Has(chunk, "E")
            THEN /\ lock' = [lock EXCEPT ![c] = IF @ = <<c, "own">> THEN NoLock ELSE @]
                 /\ marker' = [marker EXCEPT ![c] = FALSE]
                 /\ cl' = [cl EXCEPT ![c] = IF marker[c] THEN Exited(@, "graceful")
                                            ELSE [@ EXCEPT !.pc = "retry", !.link = 0]]
                 /\ ep' = HungUp(ep, e)
            ELSE /\ ep' = [ep EXCEPT ![e].tx = SubSeq(@, n + 1, Len(@))]
                 /\ UNCHANGED <<lock, marker, cl>>
  /\ UNCHANGED <<dir, nextGen, inst, inBuf, outBuf, nextEp, drops, dm, nextD, host, pf, cs, rx, ins>>

\* attach, lines 362-366 and 392-402: os.read returns b'', the link is lost
relay_eof(c) ==
  /\ cl[c].pc = "relay"
  /\ ~ep[cl[c].link].up
  /\ ep' = HungUp(ep, cl[c].link)
  /\ cl' = [cl EXCEPT ![c] = [@ EXCEPT !.pc = "retry", !.link = 0]]
  /\ UNCHANGED <<dir, nextGen, inst, inBuf, outBuf, nextEp, drops, dm, nextD, marker, lock, host, pf, cs, rx, ins>>

\* what os.read(stdin_fileno, 1024) returns at the retry prompt: a key, the
\* lone b'\x03' of Ctrl-C, or b'' when standard input is at end of file
Keys == {"any", "ctrl-c", "eof"}

\* attach, lines 314-337: "Press any key to retry. Ctrl-C to give up."
\* Whatever is not b'\x03' goes on to "continue" (line 337).
retry_prompt(c) ==
  /\ cl[c].pc = "retry"
  /\ \E key \in Keys :
       IF key # "ctrl-c"
         THEN cl' = [cl EXCEPT ![c] = [@ EXCEPT !.pc = "connect", !.key = key]]
              /\ UNCHANGED lock
         ELSE IF cl[c].created
           THEN cl' = [cl EXCEPT ![c] = [@ EXCEPT !.pc = "confirm", !.key = key]]
                /\ UNCHANGED lock
           ELSE cl' = [cl EXCEPT ![c] = Exited(@, "gaveup")] /\ lock' = Released(c)
  /\ UNCHANGED <<dir, nextGen, inst, inBuf, outBuf, ep, nextEp, drops, dm, nextD, marker, host, pf, cs, rx, ins>>

\* attach, lines 320-334: "Proceed? (y/n)"; on y attach returns and the
\* marker stays behind, unlocked once the process is gone
confirm(c) ==
  /\ cl[c].pc = "confirm"
  /\ \E yes \in BOOLEAN :
       IF yes THEN cl' = [cl EXCEPT ![c] = Exited(@, "abandoned")] /\ lock' = Released(c)
       ELSE cl' = [cl EXCEPT ![c].pc = "connect"] /\ UNCHANGED lock
  /\ UNCHANGED <<dir, nextGen, inst, inBuf, outBuf, ep, nextEp, drops, dm, nextD, marker, host, pf, cs, rx, ins>>

\* ======================================================================
\* Environment
\* ======================================================================
\* the network under a secure-shell channel fails: the ssh child of the
\* client ends (os.read of its master returns b'', lines 136 and 362)
net_drop(e) ==
  /\ ep[e].up
  /\ drops < MaxDrops
  /\ drops' = drops + 1
  /\ ep' = HungUp(ep, e)
  /\ UNCHANGED <<dir, nextGen, inst, inBuf, outBuf, nextEp, dm, nextD, cl, marker, lock, host, pf, cs, rx, ins>>

\* the remote sshd notices the dead channel and hangs up the terminal of the
\* endpoint (the SIGHUP that onhup_delpid, line 160, is installed for)
sshd_hangup(e) ==
  /\ EpAlive(e)
  /\ ~ep[e].up
  /\ ~ep[e].hup
  /\ ep' = [ep EXCEPT ![e].hup = TRUE]
  /\ UNCHANGED <<dir, nextGen, inst, inBuf, outBuf, nextEp, drops, dm, nextD, cl, marker, lock, host, pf, cs, rx, ins>>

\* versions of rossh_server.py the remote account can hold: none, an older
\* one, the client's, a newer one
Versions == {0, rossh_version_index - 1, rossh_version_index, rossh_version_index + 1}

\* the remote account is changed from elsewhere: a client of another
\* version installs its scripts, ~/.rossh is removed, python3 goes away
host_change ==
  /\ host.changes < MaxChanges
  /\ \E v \in Versions, py \in BOOLEAN :
       /\ <<v, py>> # <<host.server, host.python>>
       /\ host' = [python |-> py, server |-> v, changes |-> host.changes + 1]
  /\ UNCHANGED <<dir, nextGen, inst, inBuf, outBuf, ep, nextEp, drops, dm, nextD, cl, marker, lock, pf, cs, rx, ins>>

\* the user starts the next client when the previous one has ended
start_in_turn(c) ==
  /\ \A b \in 1..(c - 1) : cl[b].pc = "exited"
  /\ client_start(c)

EndpointStep(e) ==
  \/ main_version(e)
  \/ destroy_check(e) \/ destroy_hup(e) \/ destroy_term(e)
  \/ destroy_rmtree(e) \/ destroy_emit(e)
  \/ create_exists(e) \/ create_mkdir(e) \/ create_mkfifo_in(e)
  \/ create_mkfifo_out(e) \/ create_fork(e)
  \/ attach_preempt(e) \/ attach_register(e)
  \/ attach_open_input(e) \/ attach_open_input_done(e)
  \/ attach_open_output(e) \/ attach_open_output_done(e)
  \/ attach_connS(e) \/ resize_window(e)
  \/ relay_stdin(e) \/ relay_stdin_eof(e)
  \/ relay_output(e) \/ relay_output_eof(e)
  \/ attach_rmtree(e) \/ attach_connE(e) \/ attach_return(e)
  \/ deliver_sigint(e) \/ onhup_delpid(e)

DaemonStep(d) ==
  \/ copy_open_input(d) \/ copy_open_input_done(d)
  \/ copy_open_output(d) \/ copy_open_output_done(d)
  \/ copy_master(d) \/ copy_master_eof(d)
  \/ copy_input(d) \/ copy_input_eof(d) \/ copy_reopen_done(d)
  \/ sigterm_handler(d) \/ daemon_exit(d) \/ shell_exit(d)

ClientStep(c) ==
  \/ connect(c)
  \/ scan_list(c) \/ scan_probe(c) \/ scan_close(c) \/ launch(c)
  \/ read_launch(c) \/ read_launch_eof(c) \/ install(c)
  \/ client_mark(c) \/ client_lock(c)
  \/ relay_read(c) \/ relay_eof(c)
  \/ retry_prompt(c) \/ confirm(c)

\* Clients run one after another on a network that can fail.
Next ==
  \/ \E e \in Eps : EndpointStep(e)
  \/ \E d \in Daemons : DaemonStep(d)
  \/ \E c \in Clients : start_in_turn(c) \/ ClientStep(c)
  \/ \E e \in Eps : net_drop(e) \/ sshd_hangup(e)

Spec == Init /\ [][Next]_vars

\* Clients run side by side on a network that can fail, with shells that
\* stay alive and silent and users who type nothing.
QuietEndpointStep(e) ==
  \/ main_version(e)
  \/ destroy_check(e) \/ destroy_hup(e) \/ destroy_term(e)
  \/ destroy_rmtree(e) \/ destroy_emit(e)
  \/ create_exists(e) \/ create_mkdir(e) \/ create_mkfifo_in(e)
  \/ create_mkfifo_out(e) \/ create_fork(e)
  \/ attach_preempt(e) \/ attach_register(e)
  \/ attach_open_input(e) \/ attach_open_input_done(e)
  \/ attach_open_output(e) \/ attach_open_output_done(e)
  \/ attach_connS(e) \/ resize_window(e)
  \/ relay_stdin_eof(e) \/ relay_output_eof(e)
  \/ attach_rmtree(e) \/ attach_connE(e) \/ attach_return(e)
  \/ deliver_sigint(e) \/ onhup_delpid(e)

QuietDaemonStep(d) ==
  \/ copy_open_input(d) \/ copy_open_input_done(d)
  \/ copy_open_output(d) \/ copy_open_output_done(d)
  \/ copy_input(d) \/ copy_input_eof(d) \/ copy_reopen_done(d)
  \/ sigterm_handler(d)

NextPair ==
  \/ \E e \in Eps : QuietEndpointStep(e)
  \/ \E d \in Daemons : QuietDaemonStep(d)
  \/ \E c \in Clients : client_start(c) \/ ClientStep(c)
  \/ \E e \in Eps : net_drop(e) \/ sshd_hangup(e)

SpecPair == Init /\ [][NextPair]_vars

\* Clients run one after another, with shells that stay alive and silent,
\* against a remote account that can be changed from elsewhere.
NextVer ==
  \/ \E e \in Eps : QuietEndpointStep(e)
  \/ \E d \in Daemons : QuietDaemonStep(d)
  \/ \E c \in Clients : start_in_turn(c) \/ ClientStep(c)
  \/ \E e \in Eps : net_drop(e) \/ sshd_hangup(e)
  \/ host_change

SpecVer == Init /\ [][NextVer]_vars

\* ======================================================================
\* Byte streams (rossh_common.py)
\* ======================================================================
\* Bytes are one-character strings, byte strings are sequences of them.
MaxPat    == 3   \* longest pattern searched for
MaxStream == 6   \* longest stream fed to a PatternFinder
BUFLEN    == 4   \* PatternFinder.BUFLEN (100 in the source), scaled with the
                 \* streams; as there it exceeds every pattern

Min(a, b) == IF a <= b THEN a ELSE b

SeqsUpTo(S, n) == UNION {[1..k -> S] : k \in 0..n}

\* bytes.find(sub): the lowest index (from 0) at which sub occurs, else -1
Find(data, sub) ==
  LET hits == {i \in 0..(Len(data) - Len(sub)) :
                 SubSeq(data, i + 1, i + Len(sub)) = sub}
  IN IF hits = {} THEN 0 - 1 ELSE CHOOSE i \in hits : \A j \in hits : i <= j

\* the slices data[a:], data[:b] (0 <= a, b) and data[-n:] (n >= 1)
From(data, a) == IF a >= Len(data) THEN <<>> ELSE SubSeq(data, a + 1, Len(data))
Upto(data, b) == SubSeq(data, 1, Min(b, Len(data)))
Last(data, n) == From(data, Len(data) - Min(n, Len(data)))

\* a variant of append that keeps the tail of the newest chunk only
append_newest(tail_buf, data) ==
  Last(data, BUFLEN)

\* PatternFinder.append, lines 133-134
append(tail_buf, data) ==
  Last(tail_buf \o data, BUFLEN)

\* PatternFinder.find_with_tail, lines 136-145: None is <<>>
find_with_tail(tail_buf, data, pattern) ==
  LET tail_head_len == Min(Len(pattern) - 1, Len(tail_buf))
      p == Find(Last(tail_buf, Len(pattern) - 1) \o data, pattern)
  IN IF p < 0 THEN <<>>
     ELSE << IF p >= tail_head_len THEN Upto(data, p - tail_head_len) ELSE <<>>,
             From(data, p + Len(pattern) - tail_head_len) >>

PfBytes == {"a", "b"}

\* the asserts of lines 137-138
Patterns == {p \in SeqsUpTo(PfBytes, MaxPat) : Len(p) >= 2 /\ Len(p) < BUFLEN}

InitFinder ==
  /\ InitSession
  /\ \E p \in Patterns, d \in SeqsUpTo(PfBytes, MaxStream) :
       pf = [NoFinder EXCEPT !.pattern = p, !.stream = d]
  /\ cs = NoCodec /\ rx = NoReceiver /\ ins = NoInstall

\* one os.read and what every caller does with it (rossh_client.py, lines
\* 96-102, 214-218, 373-385): find_with_tail, and append unless it matched
feed_chunk(n) ==
  /\ pf.res = <<>>
  /\ n <= Len(pf.stream) - pf.fed
  /\ LET data  == SubSeq(pf.stream, pf.fed + 1, pf.fed + n)
         found == find_with_tail(pf.tail_buf, data, pf.pattern)
     IN pf' = IF found # <<>>
                THEN [pf EXCEPT !.chunk = data, !.res = found]
                ELSE [pf EXCEPT !.tail_buf = append(pf.tail_buf, data), !.fed = @ + n]
  /\ UNCHANGED <<session, cs, rx, ins>>

NextFinder == \E n \in 1..MaxStream : feed_chunk(n)

SpecFinder == InitFinder /\ [][NextFinder]_vars

\* ---- control sequences --------------------------------------------------
\* rossh_common.py, lines 19-21, scaled: ctlseq_special stands for the 19
\* bytes of 'rossh_173e6793-122c', ctlseq_end for the 7 of 'ECrossh'. Like
\* 'ECrossh', the scaled end has no proper prefix that is also its suffix.
ctlseq_special == <<"r">>
ctlseq_begin   == <<"B", "C">>
ctlseq_end     == <<"E", "C">>

MaxPayload == 3   \* longest payload of a control sequence

\* the concatenation of the byte strings args[1], args[2], ...
RECURSIVE Concat(_)
Concat(args) == IF args = <<>> THEN <<>> ELSE Head(args) \o Concat(Tail(args))

\* a variant of build_ctlseq that leaves out the end marker
build_ctlseq_open(args) ==
  ctlseq_begin \o ctlseq_special \o Concat(args)

\* build_ctlseq, lines 49-56
build_ctlseq(args) ==
  ctlseq_begin \o ctlseq_special \o Concat(args) \o ctlseq_end

\* find_ctlseq_param, lines 33-47: (None, None) is found = FALSE, the
\* RuntimeError of line 43 is raised = TRUE
find_ctlseq_param(data, args) ==
  LET begin == ctlseq_begin \o ctlseq_special \o Concat(args)
      st    == Find(data, begin)
      after == From(data, st + Len(begin))
      ed    == Find(after, ctlseq_end)
  IN IF st < 0
       THEN [found |-> FALSE, raised |-> FALSE, ret |-> <<>>, remain |-> <<>>]
     ELSE IF ed < 0
       THEN [found |-> FALSE, raised |-> TRUE, ret |-> <<>>, remain |-> <<>>]
     ELSE [found |-> TRUE, raised |-> FALSE, ret |-> Upto(after, ed),
           remain |-> From(after, ed + Len(ctlseq_end))]

\* the opcodes 'WS' and 'KILLed:', and the bytes payloads are made of: the
\* bytes of the markers and one other
Opcodes == {<<"W", "S">>, <<"K">>}
CsBytes == {"B", "C", "r", "E", "x"}
Payloads == {x \in SeqsUpTo(CsBytes, MaxPayload) : Find(x, ctlseq_end) < 0}

InitCodec ==
  /\ InitSession
  /\ \E o \in Opcodes, x \in Payloads :
       cs = [NoCodec EXCEPT !.op = o, !.payload = x, !.pc = "args"]
  /\ pf = NoFinder /\ rx = NoReceiver /\ ins = NoInstall

\* the sender, as in forward_window_resize, line 97: build_ctlseq(b'WS', size)
encode ==
  /\ cs.pc = "args"
  /\ cs' = [cs EXCEPT !.data = build_ctlseq(<<cs.op, cs.payload>>), !.pc = "built"]
  /\ UNCHANGED <<session, pf, rx, ins>>

\* the receiver, as in write_to_master_fd, line 69: find_ctlseq_param(data, 'WS')
decode ==
  /\ cs.pc = "built"
  /\ LET r == find_ctlseq_param(cs.data, <<cs.op>>)
     IN cs' = [cs EXCEPT !.ret = r.ret, !.remain = r.remain,
                         !.pc = IF r.raised THEN "raised"
                                ELSE IF r.found THEN "parsed" ELSE "none"]
  /\ UNCHANGED <<session, pf, rx, ins>>

NextCodec == encode \/ decode

SpecCodec == InitCodec /\ [][NextCodec]_vars

\* ---- receivers of control frames ----------------------------------------
MaxWrites == 3    \* writes of the sender
MaxRead   == 16   \* most bytes one os.read returns (1024 in the source)

OpWS     == <<"W", "S">>   \* 'WS'
OpKilled == <<"K">>        \* 'KILLed:'

\* what a sender writes at once: ordinary bytes, or a frame with a payload (a
\* window size, a terminal id)
Writes == {<<"d", <<"a">>>>, <<"f", <<"1">>>>, <<"f", <<"2">>>>}

\* the bytes of the writes w under opcode op, in order
RECURSIVE Wire(_, _)
Wire(op, w) ==
  IF w = <<>> THEN <<>>
  ELSE (IF Head(w)[1] = "f" THEN build_ctlseq(<<op, Head(w)[2]>>) ELSE Head(w)[2])
       \o Wire(op, Tail(w))

InitFrames ==
  /\ InitSession
  /\ \E o \in {OpWS, OpKilled}, w \in SeqsUpTo(Writes, MaxWrites) :
       rx = [NoReceiver EXCEPT !.op = o, !.writes = w, !.todo = Wire(o, w)]
  /\ pf = NoFinder /\ cs = NoCodec /\ ins = NoInstall

\* what both receivers do with the data of one read: the first frame of the
\* opcode is acted on and data becomes what follows it
Received(data) ==
  LET r == find_ctlseq_param(data, <<rx.op>>)
  IN [rx EXCEPT !.todo = From(rx.todo, Len(data)),
                !.raised = r.raised,
                !.acted = IF r.found THEN Append(@, r.ret) ELSE @,
                !.passed = IF r.raised THEN @
                           ELSE IF r.found THEN @ \o r.remain ELSE @ \o data]

\* copy_to_daemon, lines 68-80: os.read(f_input_fileno, 1024) and
\* write_to_master_fd (rossh_common.py, lines 63-75): TIOCSWINSZ for the WS
\* frame found, the rest written to the master. The RuntimeError is no
\* OSError: it ends the daemon.
write_to_master_fd(n) ==
  /\ rx.op = OpWS
  /\ ~rx.raised
  /\ n <= Len(rx.todo)
  /\ rx' = Received(Upto(rx.todo, n))
  /\ UNCHANGED <<session, pf, cs, ins>>

\* init_connection, lines 134-151: os.read(master_fd, 1024) in the launch
\* loop and find_ctlseq_param(data, 'KILLed:'); the marker of the id found is
\* unlinked and data = remain_data goes on to the pattern checks. The
\* RuntimeError ends the client (connect, lines 275-278).
read_killed(n) ==
  /\ rx.op = OpKilled
  /\ ~rx.raised
  /\ n <= Len(rx.todo)
  /\ rx' = Received(Upto(rx.todo, n))
  /\ UNCHANGED <<session, pf, cs, ins>>

NextFrames == \E n \in 1..MaxRead : write_to_master_fd(n) \/ read_killed(n)

SpecFrames == InitFrames /\ [][NextFrames]_vars

\* ---- the install sequence ------------------------------------------------
\* init_connection, lines 205-240, and the remote /bin/sh. Scaled: a byte has
\* 3 bits and a base64 character 2, so that 2 bytes make 3 characters (in the
\* source 8 and 6 bits, 3 bytes make 4 characters); f.read takes ChunkLen
\* bytes, a whole number of such groups (1023 = 3 * 341 in the source); two
\* of the three program files.
MaxSrc   == 3   \* longest program file
ChunkLen == 2   \* f.read(1023)
MaxRuns  == 2   \* install sequences run one after the other

ByteVals == {1, 6}
FileNames == <<"rossh_server.py", "rossh_common.py">>
Alphabet == <<"A", "B", "C", "D">>

RECURSIVE ToBits(_)
ToBits(data) ==
  IF data = <<>> THEN <<>>
  ELSE <<Head(data) \div 4, (Head(data) \div 2) % 2, Head(data) % 2>> \o ToBits(Tail(data))

\* base64.b64encode: the bits in groups of 2, the last group filled with
\* zeros, and '=' up to a whole number of 3 characters
RECURSIVE Chars(_)
Chars(bits) ==
  IF bits = <<>> THEN <<>>
  ELSE IF Len(bits) = 1 THEN <<Alphabet[2 * bits[1] + 1]>>
  ELSE <<Alphabet[2 * bits[1] + bits[2] + 1]>> \o Chars(Tail(Tail(bits)))

b64encode(data) ==
  LET c == Chars(ToBits(data))
  IN c \o [j \in 1..((3 - (Len(c) % 3)) % 3) |-> "="]

\* base64 -d: the characters back to bits, '=' left out, and the whole bytes
\* of them
RECURSIVE BitsOf(_)
BitsOf(chars) ==
  IF chars = <<>> THEN <<>>
  ELSE IF Head(chars) = "=" THEN BitsOf(Tail(chars))
  ELSE LET v == (CHOOSE j \in 1..Len(Alphabet) : Alphabet[j] = Head(chars)) - 1
       IN <<v \div 2, v % 2>> \o BitsOf(Tail(chars))

RECURSIVE Bytes(_)
Bytes(bits) ==
  IF Len(bits) < 3 THEN <<>>
  ELSE <<4 * bits[1] + 2 * bits[2] + bits[3]>> \o Bytes(SubSeq(bits, 4, Len(bits)))

b64decode(chars) == Bytes(BitsOf(chars))

\* lines 229-237: the echo commands of one file, a chunk of f.read each
RECURSIVE EchoCmds(_, _)
EchoCmds(fname, data) ==
  IF data = <<>> THEN <<>>
  ELSE << <<"echo", fname, b64encode(Upto(data, ChunkLen))>> >>
       \o EchoCmds(fname, From(data, ChunkLen))

\* lines 221-240: the command lines of one install sequence, in order
Script(src) ==
  << <<"mkdir">>, <<"chmod">>, <<"cd", "~/.rossh">> >>
  \o << <<"rm", FileNames[1]>> >> \o EchoCmds(FileNames[1], src[1])
  \o << <<"rm", FileNames[2]>> >> \o EchoCmds(FileNames[2], src[2])
  \o << <<"chmod">>, <<"cd", "~">> >>

FileNo(fname) == CHOOSE j \in 1..Len(FileNames) : FileNames[j] = fname

\* a variant of sh in which rm removes nothing
sh_keep(r, cmd) ==
  IF cmd[1] = "cd" THEN [r EXCEPT !.cwd = cmd[2]]
  ELSE IF cmd[1] = "echo"
    THEN IF r.cwd # "~/.rossh" THEN [r EXCEPT !.stray = TRUE]
         ELSE [r EXCEPT !.remote[FileNo(cmd[2])] =
                           << (IF @ = <<>> THEN <<>> ELSE @[1]) \o b64decode(cmd[3]) >>]
  ELSE r

\* what the remote /bin/sh does with one command line: cd; rm of a name in
\* the working directory; echo "..." | base64 -d >> name, which creates the
\* file if it is absent and appends the decoded bytes; mkdir -p and chmod
\* change no content
sh(r, cmd) ==
  IF cmd[1] = "cd" THEN [r EXCEPT !.cwd = cmd[2]]
  ELSE IF cmd[1] = "rm"
    THEN IF r.cwd # "~/.rossh" THEN [r EXCEPT !.stray = TRUE]
         ELSE [r EXCEPT !.remote[FileNo(cmd[2])] = <<>>]
  ELSE IF cmd[1] = "echo"
    THEN IF r.cwd # "~/.rossh" THEN [r EXCEPT !.stray = TRUE]
         ELSE [r EXCEPT !.remote[FileNo(cmd[2])] =
                           << (IF @ = <<>> THEN <<>> ELSE @[1]) \o b64decode(cmd[3]) >>]
  ELSE r

\* the program files are the scripts the client itself runs from: none of
\* them is empty
Sources == {x \in SeqsUpTo(ByteVals, MaxSrc) : x # <<>>}

\* ~/.rossh may hold older files
InitInstall ==
  /\ InitSession
  /\ \E s1, s2 \in Sources, r1, r2 \in {<<>>, << <<6>> >>} :
       ins = [NoInstall EXCEPT !.src = <<s1, s2>>, !.remote = <<r1, r2>>]
  /\ pf = NoFinder /\ cs = NoCodec /\ rx = NoReceiver

\* lines 186-202: a PROMPT after a failed launch starts the sequence
install_begin ==
  /\ ins.run < MaxRuns
  /\ ins.wait = "none"
  /\ ins.run > 0 => ins.k = Len(Script(ins.src))
  /\ ins' = [ins EXCEPT !.run = @ + 1, !.k = 0]
  /\ UNCHANGED <<session, pf, cs, rx>>

\* a variant of run_cmd_write that does not wait for the PROMPT of the
\* command before
run_cmd_write_blind ==
  /\ ins.run > 0
  /\ ins.k + ins.sent - ins.seen < Len(Script(ins.src))
  /\ ins.sent - ins.seen < 2
  /\ ins' = [ins EXCEPT !.cmd = Script(ins.src)[ins.k + 1], !.wait = "sent",
                        !.sent = @ + 1]
  /\ UNCHANGED <<session, pf, cs, rx>>

\* run_cmd, line 207: write_to(master_fd, cmd + b'\n')
run_cmd_write ==
  /\ ins.run > 0
  /\ ins.wait = "none"
  /\ ins.k < Len(Script(ins.src))
  /\ ins' = [ins EXCEPT !.cmd = Script(ins.src)[ins.k + 1], !.wait = "sent",
                        !.sent = @ + 1]
  /\ UNCHANGED <<session, pf, cs, rx>>

\* the remote shell reads the line, runs it and prints PS1
sh_command ==
  /\ ins.wait = "sent"
  /\ ins' = [sh(ins, ins.cmd) EXCEPT !.wait = "answered"]
  /\ UNCHANGED <<session, pf, cs, rx>>

\* run_cmd, lines 208-218: reads until the PROMPT is found
run_cmd_read ==
  /\ ins.wait = "answered"
  /\ ins' = [ins EXCEPT !.wait = "none", !.cmd = <<>>, !.k = @ + 1, !.seen = @ + 1]
  /\ UNCHANGED <<session, pf, cs, rx>>

NextInstall == install_begin \/ run_cmd_write \/ sh_command \/ run_cmd_read

SpecInstall == InitInstall /\ [][NextInstall]_vars

\* ======================================================================
\* Claims
\* ======================================================================
\* open() has returned: the endpoint holds the end it asked for
HoldsInput(e)  == ep[e].in \in Gens /\ ep[e].pc # "a_openInW"
HoldsOutput(e) == ep[e].out \in Gens /\ ep[e].pc # "a_openOutW"

\* C1: for every terminal id at most one endpoint is attached at any moment:
\* no two live endpoints of one terminal id hold the input pipe open for
\* writing, or the output pipe open for reading, at the same time.
C1_SerialTurnover ==
  \A a, b \in Eps :
    (a # b /\ EpAlive(a) /\ EpAlive(b) /\ ep[a].term = ep[b].term)
      => /\ ~(HoldsInput(a) /\ HoldsInput(b) /\ ep[a].in = ep[b].in)
         /\ ~(HoldsOutput(a) /\ HoldsOutput(b) /\ ep[a].out = ep[b].out)

\* C2: a session daemon leaves its relay loop only on EOF of the
\* pseudo-terminal master or on external termination (SIGTERM), whatever the
\* endpoints do and whatever the shell prints while none is attached.
C2_LoopLeftOnlyOnEofOrTermination ==
  \A d \in Daemons : dm[d].pc = "d_left" => dm[d].why \in {"eof", "sigterm"}

\* C3: at no time do two live session daemons exist for one terminal id.
C3_OneDaemonPerId ==
  \A a, b \in Daemons :
    (a # b /\ DAlive(a) /\ DAlive(b)) => dm[a].term # dm[b].term

\* C4: in every reachable state the session directory of a terminal id
\* exists if and only if the daemon of that terminal id is alive.
C4_DirIffDaemonAlive ==
  \A t \in Ids : (dir[t] # 0) <=> (\E d \in Daemons : DAlive(d) /\ dm[d].term = t)

\* the endpoint process ends in this step
Ends(e) == ep[e].pc # "dead" /\ ep'[e].pc = "dead"

Signals == {"sigint", "sighup"}

\* C5 (as stated): an endpoint that emitted CONN:S ends either after exactly
\* one CONN:E or by a signal.
C5_EndsWithConnEOrSignal ==
  [][\A e \in Eps :
       (Ends(e) /\ ep[e].connS) => (ep[e].connE = 1 \/ ep'[e].why \in Signals)]_vars

\* C5 (amended): no endpoint emits two CONN:E frames or a CONN:E without a
\* CONN:S before it; an endpoint that emitted CONN:S and ends without a
\* signal has emitted CONN:E exactly when it ends gracefully (status 0, after
\* EOF on the output pipe and rmtree), and none when it ends on EOF of standard
\* input or on an uncaught error.
C5_AtMostOneConnE ==
  [][\A e \in Eps :
       /\ ep'[e].connE <= 1
       /\ ep'[e].connE = 1 => ep'[e].connS
       /\ (Ends(e) /\ ep[e].connS /\ ep'[e].why \notin Signals)
            => (ep[e].connE = 1 <=> ep'[e].why = "graceful")]_vars

\* C5 witness: an endpoint has emitted CONN:S and then its one CONN:E
C5_Witness == \E e \in Eps : ep[e].pc = "e_exit" /\ ep[e].connS /\ ep[e].connE = 1

\* the client is past init_connection: marker handling or the connected relay
Connected(r) == r.pc \in {"mark", "lock", "relay"}

\* C6: an endpoint writes shell output to the client only after it wrote
\* CONN:S and never after it wrote CONN:E, and a client gets past
\* init_connection into the connected relay only in a step that reads a
\* CONN:S frame from its channel.
C6_FramesBracketOutput ==
  [][/\ \A e \in Eps :
          /\ (ep[e].up /\ ep'[e].tx = Append(ep[e].tx, TokOut))
               => (ep[e].connS /\ ep[e].connE = 0)
          /\ ep'[e].fwd => ep'[e].connS
          /\ (ep[e].connE > 0 /\ ep'[e].pc # "dead") => ep'[e].fwd = ep[e].fwd
     /\ \A c \in Clients :
          (~Connected(cl[c]) /\ Connected(cl'[c]))
            => (cl[c].link \in Eps /\ Has(ep[cl[c].link].tx, "S"))]_vars

\* C6 witness: a client is in the connected relay of an endpoint that has
\* forwarded shell output between its CONN:S and its CONN:E
C6_Witness ==
  \E e \in Eps, c \in Clients :
    /\ cl[c].pc = "relay" /\ cl[c].link = e
    /\ ep[e].pc = "e_exit" /\ ep[e].fwd /\ ep[e].connS /\ ep[e].connE = 1

\* arg_orphaned_sessions appends an id to its list in this step
Lists(c, i) ==
  /\ cl'[c].pc = "scan"
  /\ cl'[c].ret = Append(cl[c].ret, i)

\* C7: arg_orphaned_sessions lists an id only in a step in which the marker
\* exists and its lock is held by the scan's own descriptor, so by no
\* client's marker descriptor: neither another live client's nor the one the
\* scanning client itself keeps locked across a reconnect.
C7_OnlyUnlockedListed ==
  [][\A c \in Clients, i \in Ids :
       Lists(c, i) => (marker[i] /\ lock[i] = <<c, "scan">>)]_vars

\* C7 witness: a scan is about to probe the marker that another client, in
\* its connected relay, holds locked
C7_Witness ==
  \E c, d \in Clients :
    /\ c # d /\ cl[c].pc = "scan" /\ d \in cl[c].todo
    /\ marker[d] /\ lock[d] = <<d, "own">> /\ cl[d].pc = "relay"

\* the kill list of the login that c is connected through names i
Killing(c, i) == \E k \in 1..Len(cl[c].ret) : cl[c].ret[k] = i

\* C8: a client that gave up after its session was created leaves its marker
\* behind, unlocked; once a later login that passed the id in --kill has
\* reached the connected state, neither the marker nor the remote session
\* directory of that id exists.
C8_OrphanReapedAtNextLogin ==
  /\ \A c \in Clients :
       (cl[c].pc = "exited" /\ cl[c].why = "abandoned") => lock[c][1] # c
  /\ \A c \in Clients, i \in Ids :
       (Connected(cl[c]) /\ Killing(c, i)) => (~marker[i] /\ dir[i] = 0)

\* the lock a client holds through f_session_orphan
Own(c) == <<c, "own">>

\* C9: a client creates its marker only in a step of attach that follows an
\* observed CONN:S and only if it has created none before; whoever holds the
\* own lock has created the marker; and the own lock, once held, is given up
\* only in a step in which the client reads CONN:E or its process ends.
C9_OneMarkerLockKept ==
  [][\A c \in Clients :
       /\ cl'[c].nMarks > cl[c].nMarks
            => (cl[c].pc = "mark" /\ cl[c].seenS /\ cl[c].nMarks = 0 /\ marker'[c])
       /\ lock'[c] = Own(c) => (cl'[c].created /\ cl'[c].nMarks = 1)
       /\ (lock[c] = Own(c) /\ lock'[c] # Own(c))
            => \/ cl'[c].pc = "exited"
               \/ cl[c].pc = "relay" /\ Has(ep[cl[c].link].tx, "E")]_vars

\* C9 witness: a client that holds the lock of the marker it created is
\* attached again after a disconnect
C9_Witness ==
  \E c \in Clients :
    /\ cl[c].pc = "mark" /\ cl[c].created /\ cl[c].nMarks = 1
    /\ marker[c] /\ lock[c] = Own(c)

\* C10: after a graceful end (the client read CONN:E, unlinked its marker and
\* returned) neither the session directory nor the marker of its terminal id
\* exists.
C10_NothingLeftAfterGracefulEnd ==
  \A c \in Clients :
    (cl[c].pc = "exited" /\ cl[c].why = "graceful") => (~marker[c] /\ dir[c] = 0)
\* the data still to be read from the channel of c holds a PROMPT and
\* nothing that ends the launch loop another way
OnlyPrompt(c) ==
  LET tx == ep[cl[c].link].tx IN
  /\ cl[c].pc = "waitS"
  /\ Has(tx, "P")
  /\ ~Has(tx, "S") /\ ~Has(tx, "T") /\ ~Has(tx, "env") /\ ~Has(tx, "K")

\* C11: within one connect attempt the client sends the launch command at
\* most twice and runs the install sequence at most once; the install runs
\* only after the first launch and is followed by the second launch; when a
\* PROMPT is all that is left to read, the next read of the first launch goes
\* on to the install and that of the second launch ends the attempt with a
\* connection error (the retry prompt), never another install.
C11_TwoLaunchesOneInstall ==
  [][\A c \in Clients :
       /\ cl'[c].launches <= 2 /\ cl'[c].installs <= 1
       /\ (cl'[c].pc = "install") => (cl'[c].launches = 1 /\ cl'[c].installs = 0)
       /\ (cl[c].pc = "install" /\ cl'[c].pc # "install") =>
             \/ cl'[c].pc = "launch" /\ cl'[c].installs = 1 /\ cl'[c].launches = 1
             \/ cl'[c].pc = "exited"
       /\ (cl[c].pc = "waitS" /\ cl[c].launches = 2) => cl'[c].pc # "install"
       /\ (OnlyPrompt(c) /\ ep[cl[c].link].tx = <<TokP>> /\ cl'[c] # cl[c]) =>
             cl'[c].pc = IF cl[c].launches = 1 THEN "install" ELSE "retry"
       /\ (OnlyPrompt(c) /\ cl'[c] # cl[c]) =>
             cl'[c].pc \in {"waitS", IF cl[c].launches = 1 THEN "install" ELSE "retry"}
  ]_vars

\* a second launch has failed with a PROMPT: the attempt is over after two
\* launches and one install
C11_Witness ==
  \E c \in Clients :
    cl[c].pc = "retry" /\ cl[c].launches = 2 /\ cl[c].installs = 1

\* the channel of c still holds a CLIENT_TOOOLD frame or a part of env's
\* complaint about python3
FatalPending(c) ==
  LET tx == ep[cl[c].link].tx IN
  /\ cl[c].pc = "waitS"
  /\ Has(tx, "T") \/ Has(tx, "env") \/ Has(tx, "nof")

\* C12: a fatal outcome of the launch (a CLIENT_TOOOLD frame, or env's
\* "/usr/bin/env: ... No such file or directory" before the next PROMPT,
\* however the reads split it) ends the client: from there the client only
\* keeps reading or exits on the fatal error; it runs no install, shows no
\* retry prompt, dials no further ssh and creates no orphan marker.
C12_FatalEndsClient ==
  [][\A c \in Clients :
       (FatalPending(c) /\ cl'[c] # cl[c]) =>
          /\ \/ cl'[c].pc = "waitS"
             \/ cl'[c].pc = "exited" /\ cl'[c].why = "fatal"
          /\ marker'[c] => marker[c]
  ]_vars

\* the same for the CLIENT_TOOOLD frame alone
C12_TooOldEndsClient ==
  [][\A c \in Clients :
       (cl[c].pc = "waitS" /\ Has(ep[cl[c].link].tx, "T") /\ cl'[c] # cl[c]) =>
          /\ cl'[c].pc = "exited" /\ cl'[c].why = "fatal"
          /\ marker'[c] => marker[c]
  ]_vars

\* the frame an endpoint of version v owes a client of this version
VersionFrame(v) == IF v < rossh_version_index THEN TokU ELSE TokT

Redials(c) == cl[c].pc \notin {"idle", "connect"} /\ cl'[c].pc = "connect"

\* C14: with auto-reconnect off the client starts a new ssh attempt only
\* from the retry prompt, after reading a key press of the user that is not
\* a give-up: any key, or Ctrl-C followed by 'n' at the confirmation.
C14_RedialOnlyOnKeyPress ==
  [][\A c \in Clients :
       Redials(c) =>
          \/ cl[c].pc = "retry" /\ cl'[c].key = "any"
          \/ cl[c].pc = "confirm" /\ cl'[c].key = "ctrl-c"
  ]_vars

\* the same, counting whatever os.read returned as read: every new attempt
\* starts at the retry prompt or at the confirmation that follows Ctrl-C
C14_RedialOnlyFromPrompt ==
  [][\A c \in Clients :
       Redials(c) =>
          \/ cl[c].pc = "retry" /\ cl'[c].key \in {"any", "eof"}
          \/ cl[c].pc = "confirm" /\ cl'[c].key = "ctrl-c"
  ]_vars

\* C15: PatternFinder is split-insensitive. However the stream is cut into
\* chunks, a match is reported in the chunk in which the first occurrence of
\* the pattern in the whole stream ends (the offset Find gives for the stream
\* fed as one chunk), 'before' and 'after' are the parts of that chunk that
\* precede and follow the occurrence, no chunk before it matches, and a
\* stream that holds the pattern is never fed to its end without a match.
C15_SplitInsensitive ==
  LET q    == Find(pf.stream, pf.pattern)
      stop == pf.fed + Len(pf.chunk)
  IN /\ pf.res # <<>> =>
          /\ q >= 0
          /\ pf.fed < q + Len(pf.pattern) /\ q + Len(pf.pattern) <= stop
          /\ pf.res[1] = (IF q > pf.fed THEN SubSeq(pf.stream, pf.fed + 1, q) ELSE <<>>)
          /\ pf.res[2] = SubSeq(pf.stream, q + Len(pf.pattern) + 1, stop)
     /\ (pf.res = <<>> /\ q >= 0) => pf.fed < q + Len(pf.pattern)

\* a pattern of three bytes has been found in a chunk of one byte (it began
\* in earlier chunks), after more bytes than tail_buf holds
C15_Witness ==
  /\ pf.res # <<>>
  /\ Len(pf.pattern) = 3
  /\ Len(pf.chunk) = 1
  /\ Len(pf.tail_buf) = BUFLEN
  /\ pf.fed > BUFLEN

\* C16: for every opcode and every payload that does not contain the end
\* marker, find_ctlseq_param applied to what build_ctlseq made of them, with
\* the same opcode, returns the payload and an empty remainder.
C16_RoundTrip ==
  cs.pc \in {"parsed", "raised", "none"} =>
    /\ cs.pc = "parsed"
    /\ cs.ret = cs.payload
    /\ cs.remain = <<>>

\* a payload that ends with the first byte of the end marker and holds the
\* bytes of the begin marker has made the round trip
C16_Witness ==
  /\ cs.pc = "parsed"
  /\ cs.payload = <<"B", "C", "E">>

\* so has the empty payload
C16_WitnessEmpty ==
  /\ cs.pc = "parsed"
  /\ cs.payload = <<>>

\* the payloads of the frames among the writes w, and the ordinary bytes
RECURSIVE FramesOf(_)
FramesOf(w) ==
  IF w = <<>> THEN <<>>
  ELSE (IF Head(w)[1] = "f" THEN <<Head(w)[2]>> ELSE <<>>) \o FramesOf(Tail(w))

RECURSIVE PlainOf(_)
PlainOf(w) ==
  IF w = <<>> THEN <<>>
  ELSE (IF Head(w)[1] = "d" THEN Head(w)[2] ELSE <<>>) \o PlainOf(Tail(w))

IsPrefix(a, b) == Len(a) <= Len(b) /\ a = SubSeq(b, 1, Len(a))

\* C17: a receiver of frames (the daemon for WS, the client in the launch
\* loop for KILLed) tolerates every split of the stream into reads, and
\* several frames in one read: it never fails, it acts on the frames in the
\* order sent and on each once, it passes on no byte of a frame as ordinary
\* data, and when the stream is read to its end it has acted on every frame.
C17_FramesSurviveSplits ==
  /\ ~rx.raised
  /\ IsPrefix(rx.acted, FramesOf(rx.writes))
  /\ \A i \in 1..Len(rx.passed) : rx.passed[i] = "a"
  /\ rx.todo = <<>> => rx.acted = FramesOf(rx.writes)

\* C18: the daemon preserves the input stream: once it has read all the
\* endpoint wrote into the input pipe, the bytes it wrote to the master are
\* the bytes written into the pipe without the WS frames, in order.
C18_InputPreserved ==
  (rx.op = OpWS /\ rx.todo = <<>> /\ ~rx.raised) => rx.passed = PlainOf(rx.writes)

\* the endpoint wrote a typed byte and then a whole WS frame; the daemon got
\* both in one read, set the window size and wrote nothing to the master
C18_Dropped ==
  /\ rx.op = OpWS
  /\ rx.writes = << <<"d", <<"a">>>>, <<"f", <<"1">>>> >>
  /\ rx.todo = <<>> /\ ~rx.raised
  /\ rx.acted = << <<"1">> >>
  /\ rx.passed = <<>>

\* the pid connection.pid of directory instance g holds (0: no such file)
ConnPid(g) == inst[g].conn

\* C19: whenever connection.pid exists and names pid p, p is a live endpoint
\* in its relay loop (onhup_delpid unlinks the file and exits in one step, so
\* "being removed by p's hangup handler" is no state of its own here).
C19_ConnPidNamesRelayingEndpoint ==
  \A g \in Gens :
    ConnPid(g) # 0 => (EpAlive(ConnPid(g)) /\ ep[ConnPid(g)].pc = "relay")

\* the weaker statement that the pid named is that of a live endpoint, in the
\* relay loop or on its way into or out of it
C19_ConnPidNamesLiveEndpoint ==
  \A g \in Gens : ConnPid(g) # 0 => EpAlive(ConnPid(g))

\* ---- C20 ---------------------------------------------------------------
\* the step in which an endpoint in its relay loop dies of the SIGINT that
\* a newer endpoint sent (attach, line 145)
SigintInRelay(e) ==
  /\ ep[e].pc = "relay" /\ ep[e].int
  /\ ep'[e].pc = "dead" /\ ep'[e].why = "sigint"

\* what the interrupted endpoint writes to its channel in that step: nothing
\* of its own, only the prompt of the shell that had launched it
NoFrameEmitted(e) == ep'[e].tx \in {ep[e].tx, Append(ep[e].tx, TokP)}

\* C20, as stated: an endpoint in its relay loop that is interrupted because
\* a newer endpoint attached unlinks its own connection.pid entry and exits,
\* emitting no CONN:E and leaving the session directory and the daemon alone.
C20_SigintUnlinksOwnPid ==
  [][\A e \in Eps : SigintInRelay(e) =>
        /\ \A g \in Gens : inst'[g].conn # e
        /\ NoFrameEmitted(e)
        /\ dir' = dir /\ dm' = dm]_vars

\* C20, amended: an endpoint in its relay loop that is interrupted because a
\* newer endpoint attached exits without touching connection.pid or any
\* other entry of the session directory (the file keeps the pid it held),
\* emitting no CONN:E, and the daemon is left as it was.
C20_SigintLeavesPidFile ==
  [][\A e \in Eps : SigintInRelay(e) =>
        /\ inst' = inst
        /\ NoFrameEmitted(e)
        /\ dir' = dir /\ dm' = dm]_vars

\* the older of two endpoints has died of SIGINT in its relay loop: the WS
\* frame it wrote on entering the loop is still in the input pipe, and the
\* daemon never closed the output pipe, so the loop was never left through
\* line 191. Its pid is still in connection.pid, the newer endpoint that
\* interrupted it has not yet written its own, and the daemon is running.
C20_Witness ==
  \E e, n \in Eps, g \in Gens, d \in Daemons :
    /\ e < n /\ \A x \in Eps \ {e, n} : ep[x].pc = "unborn"
    /\ ep[e].pc = "dead" /\ ep[e].why = "sigint"
    /\ ConnPid(g) = e
    /\ inst[g].input = "fifo" /\ inst[g].output = "fifo"
    /\ inBuf[g] = <<"WS">>
    /\ ep[n].pc = "a_write" /\ dir[ep[n].term] = g
    /\ DAlive(d) /\ dm[d].in = g /\ dm[d].out = g

\* ---- C21 ---------------------------------------------------------------
\* the step in which endpoint o reacts to a signal (KeyboardInterrupt, or
\* onhup_delpid or the default action of SIGHUP) while connection.pid of
\* its terminal names another endpoint that is alive
SignalledBesideOwner(o, g) ==
  /\ EpAlive(o) /\ dir[ep[o].term] = g
  /\ ep'[o].pc = "dead" /\ ep'[o].why \in {"sigint", "sighup"}
  /\ ConnPid(g) \in Eps \ {o} /\ EpAlive(ConnPid(g))

\* C21: once another endpoint has written its pid to connection.pid, no
\* reaction of an older endpoint to its interrupt or to the hangup of its
\* link removes or alters the file.
C21_OlderLeavesPidFile ==
  [][\A o \in Eps, g \in Gens :
        SignalledBesideOwner(o, g) => inst'[g].conn = inst[g].conn]_vars

\* the same for the interrupt alone
C21_InterruptLeavesPidFile ==
  [][\A o \in Eps, g \in Gens :
        (SignalledBesideOwner(o, g) /\ ep'[o].why = "sigint")
          => inst'[g].conn = inst[g].conn]_vars

\* an endpoint is in its relay loop and connection.pid of its terminal does
\* not exist
C21_AttachedWithoutPidFile ==
  \E n \in Eps, g \in Gens :
    /\ ep[n].pc = "relay" /\ dir[ep[n].term] = g /\ ep[n].in = g
    /\ ConnPid(g) = 0

\* ---- C22 ---------------------------------------------------------------
\* the pcs of create_if_not_exists and create_session_daemon (parent side)
Creating == {"c_exists", "c_mkdir", "c_fifo_in", "c_fifo_out", "c_fork"}

\* C22, first part: of several endpoints that run create_if_not_exists for
\* one terminal, those that do not create the directory skip creation
\* without error: no endpoint is ended by an exception of os.mkdir.
C22_LosersSkipWithoutError ==
  [][\A e \in Eps :
        (ep[e].pc = "c_mkdir" /\ ep'[e].pc = "dead") => ep'[e].why \in Signals]_vars

\* C22, second part: an endpoint that skipped creation attaches to the
\* daemon of the creator: what it opens as 'input' and 'output' are the
\* FIFOs of the directory, never a regular file.
C22_SkipperAttachesToPipes ==
  \A e \in Eps : ep[e].in # RegularFile /\ ep[e].out # RegularFile

\* ---- C23 ---------------------------------------------------------------
\* the pcs of destroy_if_exists after line 202 found the directory, and of
\* the print that follows it
Destroying == {"k_conn", "k_sess", "k_rm", "k_emit"}

\* endpoint e takes a step of its own
Moves(e) == ep'[e].pc # ep[e].pc \/ ep'[e].kill # ep[e].kill

\* C23, the order: the ids of the kill list are handled one by one before
\* create_if_not_exists; for an id whose directory exists the endpoint in
\* connection.pid is sent SIGHUP, then the daemon in session.pid SIGTERM,
\* then the directory is removed, then KILLed:<id> is written; an id whose
\* directory is absent is passed over and nothing is written for it.
C23_ReapingOrder ==
  [][\A e \in Eps :
      LET k == ep[e].kill
          i == Head(k)
          g == dir[i]
      IN  (Moves(e) /\ EpAlive(e)') =>
          /\ ep'[e].pc = "c_exists" => ep'[e].kill = <<>>
          /\ ep[e].pc = "k_check" =>
                IF g = 0 THEN /\ ep'[e].kill = Tail(k) /\ ep'[e].tx = ep[e].tx
                              /\ dir' = dir /\ dm' = dm
                         ELSE ep'[e].pc = "k_conn" /\ ep'[e].kill = k
          /\ ep[e].pc = "k_conn" =>
                /\ ep'[e].pc = "k_sess" /\ dir' = dir /\ dm' = dm
                /\ (g # 0 /\ ConnPid(g) # 0 /\ EpAlive(ConnPid(g)))
                      => ep'[ConnPid(g)].hup
          /\ ep[e].pc = "k_sess" =>
                /\ ep'[e].pc = "k_rm" /\ dir' = dir
                /\ (g # 0 /\ inst[g].sess # 0 /\ DAlive(inst[g].sess))
                      => dm'[inst[g].sess].sigterm
          /\ ep[e].pc = "k_rm" =>
                /\ ep'[e].pc = "k_emit" /\ ep'[e].kill = k /\ ep'[e].tx = ep[e].tx
                /\ g # 0 /\ dir'[i] = 0
          /\ ep[e].pc = "k_emit" =>
                /\ ep'[e].kill = Tail(k)
                /\ ep'[e].tx = Emitted(ep[e], TokK(i))
          /\ (Len(ep'[e].tx) > Len(ep[e].tx) /\ ep'[e].tx[Len(ep'[e].tx)][1] = "K")
                => ep[e].pc = "k_emit"]_vars

\* C23, "if": an endpoint that found the directory of a listed id at line
\* 202 gets as far as writing KILLed:<id>, unless a signal ends it first.
C23_KilledIfExisted ==
  [][\A e \in Eps :
        (ep[e].pc \in Destroying /\ ep'[e].pc = "dead") => ep'[e].why \in Signals]_vars

\* ---- C24 ---------------------------------------------------------------
\* C24, the endpoint's side: the WS frame of loop entry is written after
\* CONN:S, and nothing is forwarded from standard input before it: the
\* endpoint leaves pc "a_ws" only by writing the frame (or by ending), and
\* it puts typed bytes into the input pipe only from the relay loop.
C24_WsAfterConnSBeforeInput ==
  [][\A e \in Eps :
        /\ (ep[e].pc = "a_ws" /\ Moves(e) /\ EpAlive(e)') =>
              /\ ep[e].connS /\ ep'[e].pc = "relay"
              /\ ep[e].in \in Gens => inBuf'[ep[e].in] = Append(inBuf[ep[e].in], "WS")
        /\ (ep'[e].pc = "a_ws" /\ Moves(e)) => ep'[e].connS
        /\ (ep'[e].pc = "relay" /\ Moves(e)) => ep[e].pc = "a_ws"
        /\ \A g \in Gens :
             (Len(inBuf'[g]) > Len(inBuf[g]) /\ inBuf'[g][Len(inBuf'[g])] = "d")
               => \E x \in Eps : ep[x].pc = "relay" /\ ep[x].in = g]_vars

\* the window size the daemon set last
Applied == rx.acted[Len(rx.acted)]

\* C24, the daemon's side: the input pipe holds what earlier writes left in
\* it, then the WS frame of loop entry, then what the user types. Once the
\* daemon has read it all, the window size it set last is the one of the
\* newest frame, and no byte of a frame went to the shell.
C24_EntryFrameApplied ==
  (rx.op = OpWS /\ rx.todo = <<>> /\ ~rx.raised /\ FramesOf(rx.writes) # <<>>) =>
     /\ rx.acted # <<>>
     /\ Applied = FramesOf(rx.writes)[Len(FramesOf(rx.writes))]
     /\ \A j \in 1..Len(rx.passed) : rx.passed[j] = "a"

\* a WS frame written earlier was still in the pipe when the frame of loop
\* entry and a typed byte followed; the daemon read them together, found the
\* first frame only, set the earlier window size and wrote the newer frame
\* to the shell
C24_StaleFrameWins ==
  /\ rx.op = OpWS
  /\ rx.writes = << <<"f", <<"1">>>>, <<"f", <<"2">>>>, <<"d", <<"a">>>> >>
  /\ rx.todo = <<>> /\ ~rx.raised
  /\ rx.acted = << <<"1">> >>
  /\ rx.passed = build_ctlseq(<<OpWS, <<"2">>>>) \o <<"a">>

\* ---- C25 ---------------------------------------------------------------
\* an install sequence has run to its end
Installed == ins.run > 0 /\ ins.k = Len(Script(ins.src)) /\ ins.wait = "none"

\* C25: after an install sequence, the first or a repeated one, every remote
\* program file is byte for byte its source (the concatenation of its
\* chunks), whatever ~/.rossh held before, and no file outside ~/.rossh was
\* touched; and a command is written only when the PROMPT of every command
\* written before has been observed.
C25_InstallIdempotent ==
  /\ [](Installed =>
          /\ \A j \in 1..Len(FileNames) : ins.remote[j] = <<ins.src[j]>>
          /\ ~ins.stray /\ ins.cwd = "~")
  /\ [][ins'.sent > ins.sent => ins.seen = ins.sent]_vars

\* the second sequence has run to its end over the files the first one left;
\* the first file took two chunks, the second of them shorter than a group
C25_Witness ==
  /\ Installed /\ ins.run = 2
  /\ Len(ins.src[1]) = 3
  /\ ins.remote[1] = <<ins.src[1]>>

\* ---- C26 ---------------------------------------------------------------
\* a daemon is still to come for directory instance g: an endpoint is in
\* create_session_daemon for it
Forking(g) ==
  \E x \in Eps : ep[x].pc \in {"c_fifo_in", "c_fifo_out", "c_fork"} /\ dir[ep[x].term] = g

\* some daemon has the input pipe g open for reading or is on its way to
\* line 51; one that has left copy_to_daemon never opens a pipe again
ReaderAtHand(g) ==
  \/ InR(g) # {}
  \/ Forking(g)
  \/ \E d \in Daemons : dm[d].pc = "d_openIn" /\ dir[dm[d].term] = g

\* the same for the output pipe and line 53
WriterAtHand(g) ==
  \/ OutW(g) # {}
  \/ Forking(g)
  \/ \E d \in Daemons : /\ dm[d].pc \in {"d_openIn", "d_openInW", "d_openOut"}
                        /\ dir[dm[d].term] = g

\* C26: whenever an endpoint in Session.attach enters one of its blocking
\* opens (line 162, line 164), the daemon's end of that pipe is open or a
\* daemon is on its way to open it: the endpoint never begins to wait for a
\* peer that will not come.
C26_AttachNeverStuck ==
  [][\A e \in Eps :
        /\ (ep[e].pc = "a_openIn" /\ ep'[e].pc = "a_openInW") => ReaderAtHand(ep'[e].in)
        /\ (ep[e].pc = "a_openOut" /\ ep'[e].pc = "a_openOutW") => WriterAtHand(ep'[e].out)]_vars

\* a reattach has entered open(input, 'w') after the daemon of the session
\* had left its loop on a broken output pipe; the directory is still there,
\* no daemon is alive in or before its loop, no other endpoint runs, and no
\* signal is on its way to the endpoint, whose link is up
C26_StuckAfterDetach ==
  \E e \in Eps, d \in Daemons :
    /\ ep[e].pc = "a_openInW" /\ ~ReaderAtHand(ep[e].in)
    /\ ep[e].up /\ ~ep[e].hup /\ ~ep[e].int
    /\ \A x \in Eps \ {e} : ~EpAlive(x)
    /\ dm[d].term = ep[e].term /\ dm[d].why = "epipe"
    /\ \A x \in Daemons : dm[x].pc \in {"unborn", "dead", "d_left"}

\* the client process of terminal id d is running and has created its marker
Attached(d) == cl[d].created /\ cl[d].pc # "exited"

\* C27: arg_orphaned_sessions of one client never lists the terminal id of
\* another client whose process is running and has created its marker, also
\* not between that client's open of the marker (line 341) and its lock_fd
\* (line 345).
C27_OwnerNeverListed ==
  [][\A c, d \in Clients : (c # d /\ Attached(d)) => ~Lists(c, d)]_vars

\* C27, once the owner holds its lock: no scan of another client lists it
C27_LockedOwnerNeverListed ==
  [][\A c, d \in Clients : (c # d /\ lock[d] = Own(d)) => ~Lists(c, d)]_vars

\* C27: a state in which the harm is done: the owner is in its connected
\* relay with its lock held, and the login of another client that named the
\* owner's id in --kill has removed the owner's session directory
C27_OwnerReaped ==
  \E c, d \in Clients :
    /\ c # d /\ cl[d].pc = "relay" /\ lock[d] = Own(d)
    /\ Killing(c, d) /\ Connected(cl[c]) /\ dir[d] = 0

\* ---- C28 ---------------------------------------------------------------
\* the client reads CONN:S in this step of the launch loop
EntersRelay(c) == cl[c].pc = "waitS" /\ cl'[c].pc = "mark"

\* C28: when a client leaves init_connection on CONN:S, the marker of every
\* id it passed in --kill on this login is gone, whether the server found a
\* session directory for the id (and wrote a KILLed frame) or not.
C28_MarkersGoneAtRelay ==
  [][\A c \in Clients, i \in Ids :
       (EntersRelay(c) /\ Killing(c, i)) => ~marker'[i]]_vars

\* C28, the frames: once the launch loop has read all the server wrote, it
\* has unlinked the marker of every KILLed frame, however the frames fell
\* into reads.
C28_EveryKilledActed ==
  (rx.op = OpKilled /\ rx.todo = <<>> /\ ~rx.raised) =>
     \A j \in 1..Len(FramesOf(rx.writes)) :
        \E k \in 1..Len(rx.acted) : rx.acted[k] = FramesOf(rx.writes)[j]

\* the server reaped two orphans; the client read both KILLed frames in one
\* os.read and unlinked the marker of the first only
C28_SecondKilledLost ==
  /\ rx.op = OpKilled
  /\ rx.writes = << <<"f", <<"1">>>>, <<"f", <<"2">>>> >>
  /\ rx.todo = <<>> /\ ~rx.raised
  /\ rx.acted = << <<"1">> >>

\* ---- C29 ---------------------------------------------------------------
\* attach, lines 376-385: what the connected relay has written to the
\* terminal: every chunk in which the frame was not found (line 385), and of
\* the chunk in which it was found the part before it (line 376)
Written == Upto(pf.stream, pf.fed) \o (IF pf.res # <<>> THEN pf.res[1] ELSE <<>>)

\* the bytes of the stream that precede the first occurrence of the pattern
Preceding == Upto(pf.stream, Find(pf.stream, pf.pattern))

\* C29: when the connected relay has found the CONN:E frame, the bytes it
\* wrote to the terminal are the bytes of the stream that precede the frame,
\* for every split of the stream into reads.
C29_OnlyBytesBeforeFrame ==
  pf.res # <<>> => Written = Preceding

\* C29, for a frame that arrives whole in one read: the bytes written are
\* the bytes that precede it
C29_WholeFrameNotWritten ==
  (pf.res # <<>> /\ Find(pf.stream, pf.pattern) >= pf.fed) => Written = Preceding

\* the frame came in two reads: its first byte was written to the terminal
\* by line 385 before the second read completed the match
C29_FrameHeadWritten ==
  /\ pf.res # <<>> /\ pf.res[1] = <<>>
  /\ Find(pf.stream, pf.pattern) = 0
  /\ pf.fed = 1 /\ Written = Upto(pf.pattern, 1)

====
